---- MODULE Spec2Model ----
(***************************************************************************)
(* Cloud synchronisation of newsletter-cli: the three-way merge of         *)
(* internal/api (sync metadata), the retry queue (SyncQueue) and the push  *)
(* and pull operations that keep the remembered versions.                  *)
(***************************************************************************)
EXTENDS Integers, Sequences, FiniteSets, TLC

(***************************************************************************)
(* Bounds of the model.                                                    *)
(***************************************************************************)
\* creation timestamps run over 1..MaxTime
MaxTime == 2
\* pushes are taken while the remote version of a collection is below MaxVersion
MaxVersion == 2
\* operations are queued while the retry queue is shorter than MaxQueue
MaxQueue == 2
\* the operations built on the pushes run while the retry queue holds at most
\* MaxDeviceQueue operations
MaxDeviceQueue == 1
\* at most MaxActive operations of the device are in flight at a time
MaxActive == 2
\* at most MaxRuns operations are started on the device
MaxRuns == 3
\* the pushes that the remote store accepts while the files are looked at
MaxFilePushes == 2
\* QueueSync of the operations in flight is called while the queue holds
\* fewer than MaxWaiting operations
MaxWaiting == 2
\* the retry counts of a queued operation that the backoff is computed for
MaxRetries == 70

(***************************************************************************)
(* Constants of the program.                                               *)
(***************************************************************************)
\* the default of PeriodicSyncInterval, in minutes
DefaultInterval == 5
\* 24*time.Hour, in hours
Day == 24
\* the bits of an int64 (time.Duration)
WordBits == 64
\* time.Second, in nanoseconds
Second == 1000000000

(***************************************************************************)
(* config.Account and the inputs of the merge.                             *)
(***************************************************************************)
Account(id, name, email, server, password, created) ==
    [ID |-> id, Name |-> name, Email |-> email, Server |-> server,
     Password |-> password, CreatedAt |-> created]

Names == {"Old", "New", "Newer"}
Emails == {"a@x", "b@x"}
Servers == {"imap1", "imap2"}
Passwords == {"enc1", "enc2"}
Times == 1..MaxTime

\* the account under study takes every combination of field values
FocusID == "acc0"
FocusAccounts ==
    {Account(FocusID, n, e, s, p, t) :
        n \in Names, e \in Emails, s \in Servers, p \in Passwords, t \in Times}
\* the common ancestor of the account under study varies in its name
FocusBases ==
    {Account(FocusID, n, "a@x", "imap1", "enc1", 1) : n \in Names}
\* one other account, in one version
OtherAccount == Account("acc1", "Other", "o@x", "imap9", "enc9", 1)

\* the lists a side can hold: the account under study (or not), then the
\* other account (or not)
OtherLists == {<<>>, <<OtherAccount>>}
SideLists(focus) ==
    {f \o o : f \in {<<>>} \cup {<<a>> : a \in focus}, o \in OtherLists}

(***************************************************************************)
(* SyncConflict                                                            *)
(***************************************************************************)
SyncConflict(type, id, field, local, cloud, localTime, cloudTime) ==
    [Type |-> type, ID |-> id, Field |-> field, Local |-> local, Cloud |-> cloud,
     Resolved |-> FALSE, LocalTime |-> localTime, CloudTime |-> cloudTime]

(***************************************************************************)
(* ThreeWayMergeAccounts                                                   *)
(***************************************************************************)
\* localMap[acc.ID] = acc over a list: a later entry replaces an earlier one
AccountMap(list) ==
    [id \in {list[i].ID : i \in DOMAIN list} |->
        list[CHOOSE i \in DOMAIN list :
                /\ list[i].ID = id
                /\ \A j \in DOMAIN list : list[j].ID = id => j <= i]]

\* the orders in which a range over a Go map can visit its keys
Orders(S) ==
    {o \in [1..Cardinality(S) -> S] : \A i, j \in DOMAIN o : o[i] = o[j] => i = j}

\* localChanged / cloudChanged: the fields compared against the base
AccountChanged(acc, baseAcc) ==
    \/ acc.Name # baseAcc.Name
    \/ acc.Server # baseAcc.Server
    \/ acc.Email # baseAcc.Email

\* the conflicts recorded when both sides changed
FieldConflicts(id, localAcc, cloudAcc) ==
    (IF localAcc.Name # cloudAcc.Name
     THEN <<SyncConflict("account", id, "name", localAcc.Name, cloudAcc.Name,
                         localAcc.CreatedAt, cloudAcc.CreatedAt)>>
     ELSE <<>>)
    \o
    (IF localAcc.Server # cloudAcc.Server
     THEN <<SyncConflict("account", id, "server", localAcc.Server, cloudAcc.Server,
                         localAcc.CreatedAt, cloudAcc.CreatedAt)>>
     ELSE <<>>)

\* a variant that lets the remote side win a tie of the timestamps
MergeNoBaseCloudOnTie(localAcc, cloudAcc) ==
    IF localAcc.CreatedAt > cloudAcc.CreatedAt THEN localAcc ELSE cloudAcc

\* both sides hold the account and there is no base: compare timestamps
MergeNoBase(localAcc, cloudAcc) ==
    IF localAcc.CreatedAt > cloudAcc.CreatedAt THEN localAcc
    ELSE IF cloudAcc.CreatedAt > localAcc.CreatedAt THEN cloudAcc
    ELSE localAcc

\* both sides and the base hold the account
MergeWithBase(id, localAcc, cloudAcc, baseAcc) ==
    LET localChanged == AccountChanged(localAcc, baseAcc)
        cloudChanged == AccountChanged(cloudAcc, baseAcc)
    IN  IF localChanged /\ cloudChanged
        THEN [result |-> <<localAcc>>, conflicts |-> FieldConflicts(id, localAcc, cloudAcc)]
        ELSE IF localChanged THEN [result |-> <<localAcc>>, conflicts |-> <<>>]
        ELSE IF cloudChanged THEN [result |-> <<cloudAcc>>, conflicts |-> <<>>]
        ELSE [result |-> <<localAcc>>, conflicts |-> <<>>]

\* the body of the loop over allIDs
MergeAccountStep(id, localMap, cloudMap, baseMap) ==
    LET localExists == id \in DOMAIN localMap
        cloudExists == id \in DOMAIN cloudMap
        baseExists == id \in DOMAIN baseMap
    IN  IF ~localExists /\ cloudExists
        THEN [result |-> <<cloudMap[id]>>, conflicts |-> <<>>]
        ELSE IF localExists /\ ~cloudExists
        THEN [result |-> <<localMap[id]>>, conflicts |-> <<>>]
        ELSE IF localExists /\ cloudExists
        THEN IF ~baseExists
             THEN [result |-> <<MergeNoBase(localMap[id], cloudMap[id])>>,
                   conflicts |-> <<>>]
             ELSE MergeWithBase(id, localMap[id], cloudMap[id], baseMap[id])
        ELSE [result |-> <<>>, conflicts |-> <<>>]

RECURSIVE MergeAccountLoop(_, _, _, _, _)
MergeAccountLoop(ord, k, localMap, cloudMap, baseMap) ==
    IF k > Len(ord) THEN [result |-> <<>>, conflicts |-> <<>>]
    ELSE LET one == MergeAccountStep(ord[k], localMap, cloudMap, baseMap)
             rest == MergeAccountLoop(ord, k + 1, localMap, cloudMap, baseMap)
         IN  [result |-> one.result \o rest.result,
              conflicts |-> one.conflicts \o rest.conflicts]

\* a variant that collects the identifiers of the local accounts only
AllIDsOfLocal(localAccounts, cloudAccounts) ==
    DOMAIN AccountMap(localAccounts)

AllIDs(localAccounts, cloudAccounts) ==
    DOMAIN AccountMap(localAccounts) \cup DOMAIN AccountMap(cloudAccounts)

\* ord is the order in which the range over allIDs visits the identifiers
ThreeWayMergeAccounts(localAccounts, cloudAccounts, baseAccounts, ord) ==
    MergeAccountLoop(ord, 1, AccountMap(localAccounts), AccountMap(cloudAccounts),
                     AccountMap(baseAccounts))

\* F applied to the value of v, v being computed once
Bind(v, F(_)) == CHOOSE y \in {F(x) : x \in {v}} : TRUE

(***************************************************************************)
(* Errors, and isSubscriptionError.  An error text is the sequence of its  *)
(* words; a nil error is the empty sequence.                               *)
(***************************************************************************)
NoErr == <<>>
\* HTTPClient.Do fails: the request timed out
ErrTimeout == <<"Post", "context", "deadline", "exceeded">>
\* APIError.Error() for a 403 response
ErrForbidden == <<"API", "error", "403", "Active", "subscription", "required">>
ErrPremiumNotEnabled == <<"premium", "features", "not", "enabled">>

\* what a request to the remote store can come back with
Outcomes == {NoErr, ErrTimeout, ErrForbidden}

\* strings.ToLower, word by word
ToLower(word) ==
    CASE word = "API" -> "api"
      [] word = "Post" -> "post"
      [] word = "Forbidden" -> "forbidden"
      [] word = "Active" -> "active"
      [] OTHER -> word

\* strings.Contains of a phrase
Contains(text, phrase) ==
    \E i \in 1..(Len(text) - Len(phrase) + 1) :
        SubSeq(text, i, i + Len(phrase) - 1) = phrase

\* a variant that recognises no error as a subscription error
isSubscriptionErrorNever(errStr) == FALSE

isSubscriptionError(errStr) ==
    LET errLower == [i \in DOMAIN errStr |-> ToLower(errStr[i])]
    IN  \/ Contains(errLower, <<"403">>)
        \/ Contains(errLower, <<"forbidden">>)
        \/ Contains(errLower, <<"subscription">>)
        \/ Contains(errLower, <<"active", "subscription", "required">>)
        \/ Contains(errLower, <<"account", "limit">>)
        \/ Contains(errLower, <<"upgrade", "your", "subscription">>)

\* fmt.Errorf("sync failed: %v", err) and its "queued" form
SyncFailed(err) == <<"sync", "failed:">> \o err
SyncFailedQueued(err) ==
    <<"sync", "failed:">> \o err \o <<"(queued", "for", "background", "retry)">>

(***************************************************************************)
(* JSON documents: what json.Marshal writes and json.Unmarshal accepts.    *)
(***************************************************************************)
JSONNull == [kind |-> "null", items |-> <<>>]
\* a slice is written as an array
JSONArray(items) == [kind |-> "array", items |-> items]
\* an UnsubscribedStore is written as an object with the key "newsletters"
JSONStore(newsletters) == [kind |-> "object", items |-> newsletters]

\* json.Unmarshal into []config.Account
UnmarshalAccountsOK(doc) == doc.kind \in {"array", "null"}
\* json.Unmarshal into config.UnsubscribedStore
UnmarshalStoreOK(doc) == doc.kind \in {"object", "null"}

UnsubscribedNewsletter(sender, at) == [Sender |-> sender, UnsubscribedAt |-> at]

(***************************************************************************)
(* ThreeWayMergeUnsubscribed.  UnsubscribedAt is counted in hours.         *)
(***************************************************************************)
\* localMap[n.Sender] = n over a list: a later entry replaces an earlier one
NewsletterMap(list) ==
    [sender \in {list[i].Sender : i \in DOMAIN list} |->
        list[CHOOSE i \in DOMAIN list :
                /\ list[i].Sender = sender
                /\ \A j \in DOMAIN list : list[j].Sender = sender => j <= i]]

\* both lists hold the sender: the local entry if it is the earlier one
EarlierItem(localItem, cloudItem) ==
    IF localItem.UnsubscribedAt < cloudItem.UnsubscribedAt THEN localItem ELSE cloudItem

\* a variant that counts a difference of exactly 24 hours as significant
SignificantDifferenceFromDay(diff) == diff >= Day \/ diff <= -Day

\* diff > 24*time.Hour || diff < -24*time.Hour
SignificantDifference(diff) == diff > Day \/ diff < -Day

TimestampConflicts(sender, localItem, cloudItem) ==
    IF SignificantDifference(localItem.UnsubscribedAt - cloudItem.UnsubscribedAt)
    THEN <<SyncConflict("unsubscribed", sender, "unsubscribed_at",
                        localItem.UnsubscribedAt, cloudItem.UnsubscribedAt,
                        localItem.UnsubscribedAt, cloudItem.UnsubscribedAt)>>
    ELSE <<>>

\* a variant that leaves out the senders that only the cloud list holds
MergeUnsubscribedStepLocalOnly(sender, localMap, cloudMap) ==
    IF sender \in DOMAIN localMap
    THEN [result |-> <<localMap[sender]>>, conflicts |-> <<>>]
    ELSE [result |-> <<>>, conflicts |-> <<>>]

\* the body of the loop over allSenders
MergeUnsubscribedStep(sender, localMap, cloudMap) ==
    LET localExists == sender \in DOMAIN localMap
        cloudExists == sender \in DOMAIN cloudMap
    IN  IF ~localExists /\ cloudExists
        THEN [result |-> <<cloudMap[sender]>>, conflicts |-> <<>>]
        ELSE IF localExists /\ ~cloudExists
        THEN [result |-> <<localMap[sender]>>, conflicts |-> <<>>]
        ELSE IF localExists /\ cloudExists
        THEN [result |-> <<EarlierItem(localMap[sender], cloudMap[sender])>>,
              conflicts |-> TimestampConflicts(sender, localMap[sender], cloudMap[sender])]
        ELSE [result |-> <<>>, conflicts |-> <<>>]

RECURSIVE MergeUnsubscribedLoop(_, _, _, _)
MergeUnsubscribedLoop(ord, k, localMap, cloudMap) ==
    IF k > Len(ord) THEN [result |-> <<>>, conflicts |-> <<>>]
    ELSE LET one == MergeUnsubscribedStep(ord[k], localMap, cloudMap)
             rest == MergeUnsubscribedLoop(ord, k + 1, localMap, cloudMap)
         IN  [result |-> one.result \o rest.result,
              conflicts |-> one.conflicts \o rest.conflicts]

AllSenders(localList, cloudList) ==
    DOMAIN NewsletterMap(localList) \cup DOMAIN NewsletterMap(cloudList)

\* ord is the order in which the range over allSenders visits the senders;
\* of baseList the code builds a map that it never reads
ThreeWayMergeUnsubscribed(localList, cloudList, baseList, ord) ==
    MergeUnsubscribedLoop(ord, 1, NewsletterMap(localList), NewsletterMap(cloudList))

\* the inputs of the merge: the sender under study at every timestamp, and
\* one other sender
FocusSender == "news@s0"
UnsubTimes == {1, 2, 1 + Day, 2 + Day}
FocusNewsletters == {UnsubscribedNewsletter(FocusSender, t) : t \in UnsubTimes}
OtherNewsletter == UnsubscribedNewsletter("news@s1", 1)
UnsubLists ==
    {f \o o : f \in {<<>>} \cup {<<n>> : n \in FocusNewsletters},
              o \in {<<>>, <<OtherNewsletter>>}}

(***************************************************************************)
(* CalculateChecksum, CalculateUnsubscribedChecksum.  A text is the        *)
(* sequence of its pieces.                                                 *)
(***************************************************************************)
\* sha256.Sum256 and hex.EncodeToString: texts that differ have checksums
\* that differ
SHA256Hex(data) == <<"sha256", data>>

\* fmt.Sprintf("%s|%s|%s|%s|", acc.ID, acc.Name, acc.Email, acc.Server)
AccountLine(acc) == <<acc.ID, "|", acc.Name, "|", acc.Email, "|", acc.Server, "|">>

\* n.UnsubscribedAt.Format(time.RFC3339): the timestamp to the second
FormatRFC3339(t) == <<"hour", ToString(t), ":00:00Z">>

\* fmt.Sprintf("%s|%s|", n.Sender, n.UnsubscribedAt.Format(time.RFC3339))
NewsletterLine(n) == <<n.Sender, "|">> \o FormatRFC3339(n.UnsubscribedAt) \o <<"|">>

\* data += line, over the list in its order
RECURSIVE ChecksumData(_, _)
ChecksumData(lines, k) ==
    IF k > Len(lines) THEN <<>>
    ELSE lines[k] \o ChecksumData(lines, k + 1)

CalculateChecksum(accounts) ==
    SHA256Hex(ChecksumData([i \in DOMAIN accounts |-> AccountLine(accounts[i])], 1))

CalculateUnsubscribedChecksum(newsletters) ==
    SHA256Hex(ChecksumData([i \in DOMAIN newsletters |-> NewsletterLine(newsletters[i])], 1))

\* the lists of the entities of a side list, in every order
Arrangements(lists) ==
    UNION {{[i \in DOMAIN l |-> l[o[i]]] : o \in Orders(DOMAIN l)} : l \in lists}

(***************************************************************************)
(* PremiumConfig                                                           *)
(***************************************************************************)
\* LastUnsubSync is a time; the zero time is 0
PremiumConfig(enabled, token, autoSync, periodic, interval, syncAccounts, syncUnsubscribed) ==
    [Enabled |-> enabled, Token |-> token,
     AutoSyncOnStartup |-> autoSync, PeriodicSyncEnabled |-> periodic,
     PeriodicSyncInterval |-> interval,
     SyncAccounts |-> syncAccounts, SyncUnsubscribed |-> syncUnsubscribed,
     LocalAccountsVersion |-> 0, LocalUnsubscribedVersion |-> 0,
     LastUnsubSync |-> 0]

\* all five sync settings unset: a file written before the settings existed
SettingsUnset(pc) ==
    /\ ~pc.AutoSyncOnStartup /\ ~pc.PeriodicSyncEnabled /\ pc.PeriodicSyncInterval = 0
    /\ ~pc.SyncAccounts /\ ~pc.SyncUnsubscribed

\* GetPremiumConfig: the file as read, with the defaults of the sync settings
\* (the analytics fields, which GetPremiumConfig may write back to the file as
\* it read them, are not part of the record)
GetPremiumConfig(file) ==
    IF SettingsUnset(file)
    THEN [file EXCEPT !.AutoSyncOnStartup = TRUE, !.PeriodicSyncEnabled = TRUE,
                      !.PeriodicSyncInterval = DefaultInterval,
                      !.SyncAccounts = TRUE, !.SyncUnsubscribed = TRUE]
    ELSE file

\* a variant that does not look at the token
IsPremiumEnabledWithoutToken(file) ==
    LET cfg == GetPremiumConfig(file) IN cfg.Enabled

IsPremiumEnabled(file) ==
    LET cfg == GetPremiumConfig(file) IN cfg.Enabled /\ cfg.Token # ""

(***************************************************************************)
(* The retry queue                                                         *)
(***************************************************************************)
PendingSync(type, data, retries, lastError) ==
    [Type |-> type, Data |-> data, Retries |-> retries, LastError |-> lastError]

\* a variant that queues the operation as already retried once
QueueSyncRetried(pending, syncType, dataJSON) ==
    Append(pending, PendingSync(syncType, dataJSON, 1, NoErr))

\* QueueSync: append the operation with retry count 0 (and persist)
QueueSync(pending, syncType, dataJSON) ==
    Append(pending, PendingSync(syncType, dataJSON, 0, NoErr))

GetPendingCount(pending) == Len(pending)

(***************************************************************************)
(* Requests to the remote store.  w is the state a handler works on: the   *)
(* premium configuration, the local collections, the retry queue, the      *)
(* remote store and the requests made so far by the handler.               *)
(***************************************************************************)
Colls == {"accounts", "unsubscribed"}

Call(method, coll, body, out) ==
    [method |-> method, coll |-> coll, body |-> body, out |-> out]

\* client.UpdateAccounts / client.UpdateUnsubscribed: on success the remote
\* store holds the body under the next version and answers with that version
Update(w, coll, body, out) ==
    IF out = NoErr
    THEN [w |-> [w EXCEPT !.remote[coll] = [body |-> body, version |-> @.version + 1],
                          !.calls = Append(@, Call("POST", coll, body, out))],
          err |-> NoErr,
          version |-> w.remote[coll].version + 1]
    ELSE [w |-> [w EXCEPT !.calls = Append(@, Call("POST", coll, body, out))],
          err |-> out,
          version |-> 0]

(***************************************************************************)
(* SyncAccountsToCloud / SyncUnsubscribedToCloud                           *)
(***************************************************************************)
Ret(w, err) == [w |-> w, err |-> err]

\* time.Now().  The time of the model is counted in the pushes that the
\* remote store has accepted: it advances with every successful push, of
\* this device or of another one, and is past the zero time after the first.
Now(w) == w.remote["accounts"].version + w.remote["unsubscribed"].version

\* a variant that remembers one version more than the remote store answered
RememberedVersionAhead(version) == version + 1

\* cfg.LocalAccountsVersion = accountsData.Version
RememberedVersion(version) == version

\* out is what the request to the remote store comes back with
SyncAccountsToCloud(w, out) ==
    IF ~IsPremiumEnabled(w.cfg) THEN Ret(w, ErrPremiumNotEnabled)
    ELSE
    LET accounts == w.accounts
        accountsJSON == JSONArray(accounts)
    IN  Bind(Update(w, "accounts", accountsJSON, out), LAMBDA r :
        IF r.err # NoErr
        THEN IF isSubscriptionError(r.err)
             THEN Ret(r.w, SyncFailed(r.err))
             ELSE Ret([r.w EXCEPT !.pending = QueueSync(@, "accounts", JSONArray(accounts))],
                      SyncFailedQueued(r.err))
        ELSE Ret([r.w EXCEPT !.cfg = [GetPremiumConfig(@) EXCEPT
                                 !.LocalAccountsVersion = RememberedVersion(r.version)]],
                 NoErr))

SyncUnsubscribedToCloud(w, out) ==
    IF ~IsPremiumEnabled(w.cfg) THEN Ret(w, ErrPremiumNotEnabled)
    ELSE
    LET store == w.unsubscribed
        data == JSONStore(store)
    IN  Bind(Update(w, "unsubscribed", data, out), LAMBDA r :
        IF r.err # NoErr
        THEN IF isSubscriptionError(r.err)
             THEN Ret(r.w, SyncFailed(r.err))
             ELSE Ret([r.w EXCEPT !.pending = QueueSync(@, "unsubscribed", JSONStore(store))],
                      SyncFailedQueued(r.err))
        ELSE Ret([r.w EXCEPT !.cfg = [GetPremiumConfig(@) EXCEPT
                                 !.LastUnsubSync = Now(r.w),
                                 !.LocalUnsubscribedVersion = RememberedVersion(r.version)]],
                 NoErr))

(***************************************************************************)
(* The backoff of the retries.  A time.Duration is an int64 that counts    *)
(* nanoseconds; it is held here as the set of the bit positions that are   *)
(* set, and the arithmetic wraps around at the width of the word.          *)
(***************************************************************************)
\* the positions of the set bits of a number below 2^31
Bits(n) == {i \in 0..30 : (n \div 2^i) % 2 = 1}

\* x << k: the bits shifted out of the word are lost
Shl(x, k) == {i + k : i \in x} \cap (0..(WordBits - 1))

\* the carry into bit i of x + y: some lower bit is set in both words and
\* every bit between is set in one of them
Carry(x, y, i) ==
    \E j \in 0..(i - 1) :
        /\ j \in x /\ j \in y
        /\ \A k \in (j + 1)..(i - 1) : k \in x \/ k \in y

\* x + y; the carry out of the word is lost
Add(x, y) ==
    {i \in 0..(WordBits - 1) : ((i \in x) # (i \in y)) # Carry(x, y, i)}

\* x * y: x shifted to every set bit of y, added up
RECURSIVE Mul(_, _)
Mul(x, y) ==
    IF y = {} THEN {}
    ELSE LET b == CHOOSE b \in y : TRUE
         IN  Add(Shl(x, b), Mul(x, y \ {b}))

\* the sign bit of the two's complement word
Negative(x) == (WordBits - 1) \in x

\* x > y of signed words
Greater(x, y) ==
    IF Negative(x) # Negative(y) THEN Negative(y)
    ELSE \E i \in x \ y : \A j \in (i + 1)..(WordBits - 1) : (j \in x) <=> (j \in y)

\* n * time.Second, for a whole number of seconds n below 2^31
Seconds(n) == Mul(Bits(n), Bits(Second))

\* delay := time.Duration(1<<uint(retries)) * time.Second, capped at 5 seconds
Backoff(retries) ==
    LET delay == Mul(Shl(Bits(1), retries), Bits(Second))
    IN  IF Greater(delay, Seconds(5)) THEN Seconds(5) ELSE delay

\* time.Sleep(d) returns at once when d is negative or zero
Slept(d) == IF Negative(d) THEN {} ELSE d

(***************************************************************************)
(* SyncQueue.ProcessQueue                                                  *)
(***************************************************************************)
\* syncAccountsWithRetry: sends the accounts of the queued operation
syncAccountsWithRetry(w, accounts, retries, out) ==
    IF ~GetPremiumConfig(w.cfg).Enabled
    THEN [w |-> w, err |-> ErrPremiumNotEnabled, version |-> 0]
    ELSE Update(w, "accounts", JSONArray(accounts), out)

\* syncUnsubscribedWithRetry: sends the Newsletters of the queued store
syncUnsubscribedWithRetry(w, newsletters, retries, out) ==
    IF ~GetPremiumConfig(w.cfg).Enabled
    THEN [w |-> w, err |-> ErrPremiumNotEnabled, version |-> 0]
    ELSE Update(w, "unsubscribed", JSONArray(newsletters), out)

\* The switch over pending.Type.  pushErr is the err of the if statement
\* (`if err := json.Unmarshal(...); err == nil { err = sync...WithRetry(...) }`):
\* the result of the push is assigned to it.
PushPending(w, item, out) ==
    IF item.Type = "accounts" /\ UnmarshalAccountsOK(item.Data)
    THEN LET r == syncAccountsWithRetry(w, item.Data.items, item.Retries, out)
         IN  [w |-> r.w, attempted |-> TRUE, pushErr |-> r.err]
    ELSE IF item.Type = "unsubscribed" /\ UnmarshalStoreOK(item.Data)
    THEN LET r == syncUnsubscribedWithRetry(w, item.Data.items, item.Retries, out)
         IN  [w |-> r.w, attempted |-> TRUE, pushErr |-> r.err]
    ELSE [w |-> w, attempted |-> FALSE, pushErr |-> NoErr]

\* a variant in which the result of the push reaches the err of the loop body
LoopErrIsPushErr(pushErr) == pushErr

\* The err that the loop body tests after the switch is the `var err error`
\* of the loop body.  The if statements of the switch declare an err of
\* their own and the push assigns to that one, so this err is still nil.
LoopErr(pushErr) == NoErr

\* a variant that leaves the queue as it was
CommitKeepsQueue(pending, remaining) == pending

\* a variant that adds the remaining operations to the queue
CommitAppendsRemaining(pending, remaining) == pending \o remaining

\* sq.pending = remaining (and persist)
CommitRemaining(pending, remaining) == remaining

\* What one pass of the loop body leaves in `remaining`: p is the result of
\* the switch for the operation `item`
KeepAfter(remaining, item, p) ==
    LET err == LoopErr(p.pushErr)
    IN  IF err # NoErr
        THEN IF isSubscriptionError(err)
             THEN remaining
             ELSE Append(remaining, [item EXCEPT !.Retries = @ + 1, !.LastError = err])
        ELSE remaining

\* the loop of ProcessQueue from item i on; attempts records, per item, whether
\* a push was attempted and what it returned
RECURSIVE ProcessQueueLoop(_, _, _, _, _, _)
ProcessQueueLoop(w, outs, i, remaining, lastErr, attempts) ==
    IF i > Len(w.pending)
    THEN [w |-> [w EXCEPT !.pending = CommitRemaining(w.pending, remaining)],
          err |-> lastErr, attempts |-> attempts]
    ELSE
    LET pending == w.pending[i]
    IN  Bind(PushPending(w, pending, outs[i]), LAMBDA p :
        ProcessQueueLoop(p.w, outs, i + 1,
                         KeepAfter(remaining, pending, p),
                         IF LoopErr(p.pushErr) # NoErr THEN LoopErr(p.pushErr) ELSE lastErr,
                         Append(attempts, [attempted |-> p.attempted, err |-> p.pushErr])))

\* a variant that goes through the queue from its end
ProcessQueueBackwards(w, outs) ==
    IF ~IsPremiumEnabled(w.cfg) THEN [w |-> w, err |-> NoErr, attempts |-> <<>>]
    ELSE IF Len(w.pending) = 0 THEN [w |-> w, err |-> NoErr, attempts |-> <<>>]
    ELSE ProcessQueueLoop([w EXCEPT !.pending = [i \in DOMAIN @ |-> @[Len(@) + 1 - i]]],
                          outs, 1, <<>>, NoErr, <<>>)

\* outs[i] is what the request for the i-th queued operation comes back with
ProcessQueue(w, outs) ==
    IF ~IsPremiumEnabled(w.cfg) THEN [w |-> w, err |-> NoErr, attempts |-> <<>>]
    ELSE IF Len(w.pending) = 0 THEN [w |-> w, err |-> NoErr, attempts |-> <<>>]
    ELSE ProcessQueueLoop(w, outs, 1, <<>>, NoErr, <<>>)

(***************************************************************************)
(* AutoSync, PeriodicSync                                                  *)
(***************************************************************************)
\* outs.accounts / outs.unsubscribed: what the two pushes come back with
AutoSync(w, outs) ==
    IF ~IsPremiumEnabled(w.cfg) THEN Ret(w, NoErr)
    ELSE
    LET pc == GetPremiumConfig(w.cfg)
        syncAccounts == pc.SyncAccounts \/ SettingsUnset(pc)
        syncUnsubscribed == pc.SyncUnsubscribed \/ SettingsUnset(pc)
    IN  Bind(IF syncAccounts THEN SyncAccountsToCloud(w, outs.accounts) ELSE Ret(w, NoErr),
             LAMBDA a :
        Bind(IF syncUnsubscribed THEN SyncUnsubscribedToCloud(a.w, outs.unsubscribed)
             ELSE Ret(a.w, NoErr),
             LAMBDA u :
        Ret(u.w, IF a.err # NoErr THEN a.err ELSE u.err)))

\* a variant that pushes the two collections before it processes the queue
PeriodicSyncPushesFirst(w, outs) ==
    IF ~IsPremiumEnabled(w.cfg) THEN [w |-> w, err |-> NoErr, attempts |-> <<>>]
    ELSE
    LET pc == GetPremiumConfig(w.cfg)
        syncAccounts == pc.SyncAccounts \/ SettingsUnset(pc)
        syncUnsubscribed == pc.SyncUnsubscribed \/ SettingsUnset(pc)
        had == Len(w.pending)
    IN  Bind(IF syncAccounts THEN SyncAccountsToCloud(w, outs.accounts)
             ELSE Ret(w, NoErr),
             LAMBDA a :
        Bind(IF syncUnsubscribed THEN SyncUnsubscribedToCloud(a.w, outs.unsubscribed)
             ELSE Ret(a.w, NoErr),
             LAMBDA u :
        Bind(IF had > 0
             THEN ProcessQueue([u.w EXCEPT !.pending = SubSeq(@, 1, had)], outs.queue)
             ELSE [w |-> u.w, err |-> NoErr, attempts |-> <<>>],
             LAMBDA q :
        [w |-> q.w,
         err |-> IF q.err # NoErr THEN q.err ELSE IF a.err # NoErr THEN a.err ELSE u.err,
         attempts |-> q.attempts])))

\* a variant that returns at the first push of a collection that fails
PeriodicSyncStopsAtFailure(w, outs) ==
    IF ~IsPremiumEnabled(w.cfg) THEN [w |-> w, err |-> NoErr, attempts |-> <<>>]
    ELSE
    LET pc == GetPremiumConfig(w.cfg)
        syncAccounts == pc.SyncAccounts \/ SettingsUnset(pc)
        syncUnsubscribed == pc.SyncUnsubscribed \/ SettingsUnset(pc)
    IN  Bind(IF GetPendingCount(w.pending) > 0 THEN ProcessQueue(w, outs.queue)
             ELSE [w |-> w, err |-> NoErr, attempts |-> <<>>],
             LAMBDA q :
        Bind(IF syncAccounts THEN SyncAccountsToCloud(q.w, outs.accounts)
             ELSE Ret(q.w, NoErr),
             LAMBDA a :
        IF a.err # NoErr THEN [w |-> a.w, err |-> a.err, attempts |-> q.attempts]
        ELSE
        Bind(IF syncUnsubscribed THEN SyncUnsubscribedToCloud(a.w, outs.unsubscribed)
             ELSE Ret(a.w, NoErr),
             LAMBDA u :
        [w |-> u.w,
         err |-> IF q.err # NoErr THEN q.err ELSE u.err,
         attempts |-> q.attempts])))

\* a variant that leaves the retry queue alone
PeriodicSyncSkipsQueue(w, outs) ==
    IF ~IsPremiumEnabled(w.cfg) THEN [w |-> w, err |-> NoErr, attempts |-> <<>>]
    ELSE
    LET pc == GetPremiumConfig(w.cfg)
        syncAccounts == pc.SyncAccounts \/ SettingsUnset(pc)
        syncUnsubscribed == pc.SyncUnsubscribed \/ SettingsUnset(pc)
    IN  Bind(IF syncAccounts THEN SyncAccountsToCloud(w, outs.accounts)
             ELSE Ret(w, NoErr),
             LAMBDA a :
        Bind(IF syncUnsubscribed THEN SyncUnsubscribedToCloud(a.w, outs.unsubscribed)
             ELSE Ret(a.w, NoErr),
             LAMBDA u :
        [w |-> u.w,
         err |-> IF a.err # NoErr THEN a.err ELSE u.err,
         attempts |-> <<>>]))

\* outs.queue[i]: what the push of the i-th queued operation comes back with
PeriodicSync(w, outs) ==
    IF ~IsPremiumEnabled(w.cfg) THEN [w |-> w, err |-> NoErr, attempts |-> <<>>]
    ELSE
    LET pc == GetPremiumConfig(w.cfg)
        syncAccounts == pc.SyncAccounts \/ SettingsUnset(pc)
        syncUnsubscribed == pc.SyncUnsubscribed \/ SettingsUnset(pc)
    IN  Bind(IF GetPendingCount(w.pending) > 0 THEN ProcessQueue(w, outs.queue)
             ELSE [w |-> w, err |-> NoErr, attempts |-> <<>>],
             LAMBDA q :
        Bind(IF syncAccounts THEN SyncAccountsToCloud(q.w, outs.accounts)
             ELSE Ret(q.w, NoErr),
             LAMBDA a :
        Bind(IF syncUnsubscribed THEN SyncUnsubscribedToCloud(a.w, outs.unsubscribed)
             ELSE Ret(a.w, NoErr),
             LAMBDA u :
        [w |-> u.w,
         err |-> IF q.err # NoErr THEN q.err ELSE IF a.err # NoErr THEN a.err ELSE u.err,
         attempts |-> q.attempts])))

(***************************************************************************)
(* SyncAccountsFromCloud, SyncAllAccounts                                  *)
(***************************************************************************)
ErrUnmarshal == <<"json:", "cannot", "unmarshal">>

\* client.GetAccounts / client.GetUnsubscribed
Get(w, coll, out) ==
    [w |-> [w EXCEPT !.calls = Append(@, Call("GET", coll, JSONNull, out))],
     err |-> out,
     body |-> IF out = NoErr THEN w.remote[coll].body ELSE JSONNull,
     version |-> IF out = NoErr THEN w.remote[coll].version ELSE 0]

SyncAccountsFromCloud(w, out) ==
    IF ~IsPremiumEnabled(w.cfg) THEN [w |-> w, err |-> ErrPremiumNotEnabled, accounts |-> <<>>]
    ELSE LET g == Get(w, "accounts", out)
         IN  IF g.err # NoErr THEN [w |-> g.w, err |-> g.err, accounts |-> <<>>]
             ELSE IF ~UnmarshalAccountsOK(g.body)
             THEN [w |-> g.w, err |-> ErrUnmarshal, accounts |-> <<>>]
             ELSE [w |-> g.w, err |-> NoErr, accounts |-> g.body.items]

hasAccountChanges(old, new) ==
    \/ Len(old) # Len(new)
    \/ LET oldMap == AccountMap(old)
       IN  \E i \in DOMAIN new :
              \/ new[i].ID \notin DOMAIN oldMap
              \/ oldMap[new[i].ID].Name # new[i].Name
              \/ oldMap[new[i].ID].Server # new[i].Server
              \/ oldMap[new[i].ID].Email # new[i].Email

\* outs.get / outs.push: what the pull and the push come back with; ord: the
\* order in which the merge visits the identifiers
SyncAllAccounts(w, outs, ord) ==
    IF ~IsPremiumEnabled(w.cfg) THEN Ret(w, ErrPremiumNotEnabled)
    ELSE
    LET localAccounts == w.accounts
        g == SyncAccountsFromCloud(w, outs.get)
    IN  IF g.err # NoErr
        THEN LET p == SyncAccountsToCloud(g.w, outs.push)
             IN  IF p.err # NoErr
                 THEN Ret([p.w EXCEPT !.pending = QueueSync(@, "accounts", JSONArray(localAccounts))],
                          <<"sync", "failed:">> \o p.err \o <<"(queued", "for", "retry)">>)
                 ELSE Ret(p.w, NoErr)
        ELSE
        LET m == ThreeWayMergeAccounts(localAccounts, g.accounts, <<>>, ord)
            mergedAccounts == m.result
            saved == IF Len(mergedAccounts) # Len(localAccounts)
                        \/ hasAccountChanges(localAccounts, mergedAccounts)
                     THEN [g.w EXCEPT !.accounts = mergedAccounts]
                     ELSE g.w
        IN  IF Len(m.conflicts) = 0
            THEN LET p == SyncAccountsToCloud(saved, outs.push)
                 IN  IF p.err # NoErr
                     THEN Ret([p.w EXCEPT !.pending =
                                  QueueSync(@, "accounts", JSONArray(mergedAccounts))],
                              NoErr)
                     ELSE Ret(p.w, NoErr)
            ELSE Ret(saved, NoErr)

(***************************************************************************)
(* SyncUnsubscribedFromCloud, CheckAndSyncIfNeeded                         *)
(***************************************************************************)
\* the version is remembered before the pulled document is unmarshalled
SyncUnsubscribedFromCloud(w, out) ==
    IF ~IsPremiumEnabled(w.cfg)
    THEN [w |-> w, err |-> ErrPremiumNotEnabled, newsletters |-> <<>>]
    ELSE Bind(Get(w, "unsubscribed", out), LAMBDA g :
         IF g.err # NoErr THEN [w |-> g.w, err |-> g.err, newsletters |-> <<>>]
         ELSE
         LET saved == [g.w EXCEPT !.cfg = [GetPremiumConfig(@) EXCEPT
                          !.LocalUnsubscribedVersion = RememberedVersion(g.version)]]
         IN  IF ~UnmarshalStoreOK(g.body)
             THEN [w |-> saved, err |-> ErrUnmarshal, newsletters |-> <<>>]
             ELSE [w |-> saved, err |-> NoErr, newsletters |-> g.body.items])

\* the loops that append what the pull holds and the local list lacks
AddMissingAccounts(local, cloud) ==
    local \o SelectSeq(cloud, LAMBDA a : \A k \in DOMAIN local : local[k].ID # a.ID)
AddMissingNewsletters(local, cloud) ==
    local \o SelectSeq(cloud, LAMBDA n : \A k \in DOMAIN local : local[k].Sender # n.Sender)

\* a variant that asks for the version with an update request
CheckVersionByUpdate(w, coll, out) ==
    [w |-> Update(w, coll, JSONNull, out).w, err |-> out, body |-> JSONNull,
     version |-> IF out = NoErr THEN w.remote[coll].version + 1 ELSE 0]

\* client.GetAccounts / client.GetUnsubscribed of CheckAndSyncIfNeeded
CheckVersion(w, coll, out) == Get(w, coll, out)

\* a variant that also pulls when the versions are the same
CloudIsNewerOrSame(cloudVersion, localVersion) == cloudVersion >= localVersion

\* cloudAccountsData.Version > premiumConfig.LocalAccountsVersion
CloudIsNewer(cloudVersion, localVersion) == cloudVersion > localVersion

\* The half of CheckAndSyncIfNeeded for the accounts.  c is the state of the
\* function: the world w, its premiumConfig and its flag synced.
CheckAccounts(c, outs) ==
    Bind(CheckVersion(c.w, "accounts", outs.checkAccounts), LAMBDA g :
    IF g.err # NoErr
       \/ ~CloudIsNewer(g.version, c.premiumConfig.LocalAccountsVersion)
    THEN [c EXCEPT !.w = g.w]
    ELSE Bind(SyncAccountsFromCloud(g.w, outs.pullAccounts), LAMBDA r :
         IF r.err # NoErr THEN [c EXCEPT !.w = r.w]
         ELSE
         LET merged == AddMissingAccounts(r.w.accounts, r.accounts)
             updated == merged # r.w.accounts
         IN  [w |-> [r.w EXCEPT !.accounts = merged],
              premiumConfig |-> [c.premiumConfig EXCEPT !.LocalAccountsVersion = g.version],
              synced |-> c.synced \/ updated]))

\* the half of CheckAndSyncIfNeeded for the unsubscribed list
CheckUnsubscribed(c, outs) ==
    Bind(CheckVersion(c.w, "unsubscribed", outs.checkUnsubscribed), LAMBDA g :
    IF g.err # NoErr
       \/ ~CloudIsNewer(g.version, c.premiumConfig.LocalUnsubscribedVersion)
    THEN [c EXCEPT !.w = g.w]
    ELSE Bind(SyncUnsubscribedFromCloud(g.w, outs.pullUnsubscribed), LAMBDA r :
         IF r.err # NoErr THEN [c EXCEPT !.w = r.w]
         ELSE
         LET merged == AddMissingNewsletters(r.w.unsubscribed, r.newsletters)
             updated == merged # r.w.unsubscribed
         IN  [w |-> [r.w EXCEPT !.unsubscribed = merged],
              premiumConfig |-> [c.premiumConfig EXCEPT !.LocalUnsubscribedVersion = g.version],
              synced |-> c.synced \/ updated]))

\* outs: what the four requests come back with
CheckAndSyncIfNeeded(w, outs) ==
    IF ~IsPremiumEnabled(w.cfg) THEN [w |-> w, synced |-> FALSE, err |-> NoErr]
    ELSE
    Bind(CheckAccounts([w |-> w, premiumConfig |-> GetPremiumConfig(w.cfg),
                        synced |-> FALSE], outs), LAMBDA a :
    Bind(CheckUnsubscribed(a, outs), LAMBDA u :
    [w |-> IF u.synced THEN [u.w EXCEPT !.cfg = u.premiumConfig] ELSE u.w,
     synced |-> u.synced,
     err |-> NoErr]))

(***************************************************************************)
(* The files sync_queue.json and premium.json.  A file holds a complete    *)
(* JSON text, or what a write that did not finish left of one.             *)
(***************************************************************************)
JSONFile(doc) == [kind |-> "json", doc |-> doc]
EmptyFile == [kind |-> "empty"]
PartialFile == [kind |-> "partial"]

ErrOpen == <<"open", "permission", "denied">>
ErrWrite == <<"write", "no", "space", "left", "on", "device">>

\* what a call of os.WriteFile can come to: the data is written; the file
\* cannot be opened; the write fails after the file was opened and truncated;
\* the process dies between the truncation and the write
WriteOutcomes == {"written", "not opened", "partial", "crashed"}

\* os.WriteFile(path, data, 0600): OpenFile with O_TRUNC, Write, Close
WriteFile(file, data, out) ==
    IF out = "written" THEN [file |-> JSONFile(data), err |-> NoErr, crashed |-> FALSE]
    ELSE IF out = "not opened" THEN [file |-> file, err |-> ErrOpen, crashed |-> FALSE]
    ELSE IF out = "partial" THEN [file |-> PartialFile, err |-> ErrWrite, crashed |-> FALSE]
    ELSE [file |-> EmptyFile, err |-> NoErr, crashed |-> TRUE]

\* json.Marshal of a PendingSync: last_error has omitempty
MarshalPendingSync(p) ==
    IF p.LastError = NoErr
    THEN [type |-> p.Type, data |-> p.Data, retries |-> p.Retries]
    ELSE [type |-> p.Type, data |-> p.Data, retries |-> p.Retries,
          last_error |-> p.LastError]

\* json.Unmarshal into a PendingSync
UnmarshalPendingSync(o) ==
    PendingSync(o.type, o.data, o.retries,
                IF "last_error" \in DOMAIN o THEN o.last_error ELSE NoErr)

\* a variant that writes the operations in the opposite order
MarshalQueueReversed(list) ==
    IF list = <<>> THEN JSONNull
    ELSE JSONArray([k \in DOMAIN list |-> MarshalPendingSync(list[Len(list) + 1 - k])])

\* json.MarshalIndent(sq.pending): the only empty list that is saved is the
\* nil slice `remaining` of ProcessQueue, which is written as null
MarshalQueue(list) ==
    IF list = <<>> THEN JSONNull
    ELSE JSONArray([k \in DOMAIN list |-> MarshalPendingSync(list[k])])

\* SyncQueue.save: errors of ConfigDir and of WriteFile are returned
save(list, fs, out) ==
    LET w == WriteFile(fs["sync_queue.json"], MarshalQueue(list), out)
    IN  [files |-> [fs EXCEPT !["sync_queue.json"] = w.file],
         err |-> w.err, crashed |-> w.crashed]

\* SyncQueue.load into the empty queue of GetSyncQueue: a file that is
\* missing or does not parse leaves the queue empty
load(file) ==
    IF file.kind = "json" /\ file.doc.kind = "array"
    THEN [k \in DOMAIN file.doc.items |-> UnmarshalPendingSync(file.doc.items[k])]
    ELSE <<>>

\* the PremiumConfig with every field at its zero value
ZeroConfig == PremiumConfig(FALSE, "", FALSE, FALSE, 0, FALSE, FALSE)
\* the fields of PremiumConfig without omitempty
AlwaysWritten == {"Enabled", "Token"}

\* json.MarshalIndent(cfg) in SavePremiumConfig: a field with omitempty is
\* left out when it holds its zero value (the keys are named as the fields)
MarshalPremiumConfig(c) ==
    [k \in {f \in DOMAIN c : f \in AlwaysWritten \/ c[f] # ZeroConfig[f]} |-> c[k]]

\* json.Unmarshal into a PremiumConfig
UnmarshalPremiumConfig(o) ==
    [f \in DOMAIN ZeroConfig |-> IF f \in DOMAIN o THEN o[f] ELSE ZeroConfig[f]]

\* SavePremiumConfig
SavePremiumConfig(c, fs, out) ==
    LET w == WriteFile(fs["premium.json"], MarshalPremiumConfig(c), out)
    IN  [files |-> [fs EXCEPT !["premium.json"] = w.file],
         err |-> w.err, crashed |-> w.crashed]

\* What premium.json gives when it is read: the default configuration with
\* premium switched off when there is no file, and the zero configuration
\* (GetPremiumConfig fails, IsPremiumEnabled is false) when it does not parse.
ReadPremiumConfig(file) ==
    IF file.kind = "absent"
    THEN PremiumConfig(FALSE, "", TRUE, TRUE, DefaultInterval, TRUE, TRUE)
    ELSE IF file.kind = "json" THEN UnmarshalPremiumConfig(file.doc)
    ELSE ZeroConfig

(***************************************************************************)
(* State                                                                   *)
(***************************************************************************)
VARIABLES
    cfg,           \* premium.json: the PremiumConfig on disk
    accounts,      \* the accounts of the local configuration
    unsubscribed,  \* the Newsletters of the local unsubscribed store
    pending,       \* SyncQueue.pending (and sync_queue.json)
    remote,        \* per collection, the body and the version the remote store holds
    last,          \* the handler that ran last: what it returned and requested
    mLocal,        \* localAccounts / localList handed to the merge
    mCloud,        \* cloudAccounts / cloudList handed to the merge
    mBase,         \* baseAccounts / baseList handed to the merge
    mMerged,       \* the merged list returned
    mConflicts,    \* the conflict list returned
    mPhase,        \* "input" before the call of ThreeWayMergeAccounts, "merged"
                   \* after it; "inputUnsubscribed" and "mergedUnsubscribed"
                   \* for ThreeWayMergeUnsubscribed; "lists" / "listsUnsubscribed"
                   \* and "checksummed" for the checksums
    sums,          \* the checksums computed of mLocal and of mCloud
    pc,            \* per operation in flight on the device, the statement it is at
    loc,           \* per operation in flight on the device, its local variables
    runs,          \* the number of operations started on the device
    files,         \* per file of the configuration directory, what it holds
    proc,          \* "running", or "crashed" when the process died in a write
    cmds,          \* the commands that the UI runtime is running
    inbox          \* the messages that wait for appModel.Update

syncVars == <<cfg, accounts, unsubscribed, pending, remote, last>>
mergeVars == <<mLocal, mCloud, mBase, mMerged, mConflicts, mPhase, sums>>
concVars == <<pc, loc, runs>>
fileVars == <<files, proc>>
uiVars == <<cmds, inbox>>
vars == <<syncVars, mergeVars, concVars, fileVars, uiVars>>

(***************************************************************************)
(* The device: its handlers run one at a time, each against a remote store *)
(* whose answers are not determined.                                       *)
(***************************************************************************)
\* the account and the unsubscribed newsletter that this device starts with
LocalAccount == Account(FocusID, "Old", "a@x", "imap1", "enc1", 1)
LocalUnsubscribed == UnsubscribedNewsletter("news@s0", 1)

\* the premium.json files a session starts with: the defaults, a file from
\* before the sync settings, and premium disabled
InitConfigs ==
    {PremiumConfig(TRUE, "jwt", TRUE, TRUE, DefaultInterval, TRUE, TRUE),
     PremiumConfig(TRUE, "jwt", FALSE, FALSE, 0, FALSE, FALSE),
     PremiumConfig(FALSE, "", TRUE, TRUE, DefaultInterval, TRUE, TRUE)}

NoLast == [op |-> "none", err |-> NoErr, before |-> <<>>, attempts |-> <<>>, calls |-> <<>>]

\* the operations that run as goroutines of the UI
Goroutines == {"startup", "periodic", "auto", "manual"}
Idle == <<"idle">>
NoConfig == PremiumConfig(FALSE, "", FALSE, FALSE, 0, FALSE, FALSE)
NoLocals ==
    [premiumConfig |-> NoConfig, toSave |-> NoConfig, version |-> 0, pulled |-> 0,
     doc |-> JSONNull, items |-> <<>>, newsletters |-> <<>>, synced |-> FALSE,
     i |-> 0, remaining |-> <<>>]

\* no operation in flight
ConcIdle ==
    /\ pc = [t \in Goroutines |-> Idle]
    /\ loc = [t \in Goroutines |-> NoLocals]
    /\ runs = 0

\* the files are not looked at, the UI runtime is not running
Files == {"sync_queue.json", "premium.json"}
NoFile == [kind |-> "absent"]
FileIdle ==
    /\ files = [f \in Files |-> NoFile]
    /\ proc = "running"
UIIdle ==
    /\ cmds = <<>>
    /\ inbox = <<>>

MergeIdle ==
    /\ mLocal = <<>>
    /\ mCloud = <<>>
    /\ mBase = <<>>
    /\ mMerged = <<>>
    /\ mConflicts = <<>>
    /\ mPhase = "idle"
    /\ sums = <<>>

Init ==
    /\ cfg \in InitConfigs
    /\ accounts = <<LocalAccount>>
    /\ unsubscribed = <<LocalUnsubscribed>>
    /\ pending = <<>>
    /\ remote = [c \in Colls |-> [body |-> JSONNull, version |-> 0]]
    /\ last = NoLast
    /\ MergeIdle
    /\ ConcIdle
    /\ FileIdle
    /\ UIIdle

\* the state a handler starts on
World ==
    [cfg |-> cfg, accounts |-> accounts, unsubscribed |-> unsubscribed,
     pending |-> pending, remote |-> remote, calls |-> <<>>]

WithinBounds(w) ==
    /\ \A c \in Colls : w.remote[c].version <= MaxVersion
    /\ Len(w.pending) <= MaxQueue

\* the handler op leaves the state w and returns err
Returns(op, w, err, attempts) ==
    /\ WithinBounds(w)
    /\ cfg' = w.cfg
    /\ accounts' = w.accounts
    /\ unsubscribed' = w.unsubscribed
    /\ pending' = w.pending
    /\ remote' = w.remote
    /\ last' = [op |-> op, err |-> err, before |-> pending, attempts |-> attempts,
                calls |-> w.calls]
    /\ UNCHANGED <<mergeVars, fileVars, uiVars, concVars>>

CallSyncAccountsToCloud ==
    \E out \in Outcomes :
        \E r \in {SyncAccountsToCloud(World, out)} :
            Returns("SyncAccountsToCloud", r.w, r.err, <<>>)

CallSyncUnsubscribedToCloud ==
    \E out \in Outcomes :
        \E r \in {SyncUnsubscribedToCloud(World, out)} :
            Returns("SyncUnsubscribedToCloud", r.w, r.err, <<>>)

CallProcessQueue ==
    \E outs \in [1..Len(pending) -> Outcomes] :
        \E r \in {ProcessQueue(World, outs)} :
            Returns("ProcessQueue", r.w, r.err, r.attempts)

CallAutoSync ==
    \E oa \in Outcomes, ou \in Outcomes :
        \E r \in {AutoSync(World, [accounts |-> oa, unsubscribed |-> ou])} :
            Returns("AutoSync", r.w, r.err, <<>>)

CallPeriodicSync ==
    \E oq \in [1..Len(pending) -> Outcomes], oa \in Outcomes, ou \in Outcomes :
        \E r \in {PeriodicSync(World, [queue |-> oq, accounts |-> oa, unsubscribed |-> ou])} :
            Returns("PeriodicSync", r.w, r.err, r.attempts)

\* the accounts SyncAllAccounts merges with when its pull comes back with og
PulledAccounts(og) ==
    IF og = NoErr /\ UnmarshalAccountsOK(remote["accounts"].body)
    THEN remote["accounts"].body.items ELSE <<>>

CallSyncAllAccounts ==
    \E og \in Outcomes, op \in Outcomes :
        \E ord \in Orders(AllIDs(accounts, PulledAccounts(og))) :
            \E r \in {SyncAllAccounts(World, [get |-> og, push |-> op], ord)} :
                Returns("SyncAllAccounts", r.w, r.err, <<>>)

\* config.AddAccount of an account that is not stored yet
AddAccount ==
    /\ OtherAccount.ID \notin DOMAIN AccountMap(accounts)
    /\ accounts' = Append(accounts, OtherAccount)
    /\ last' = NoLast
    /\ UNCHANGED <<cfg, unsubscribed, pending, remote, mergeVars, fileVars, uiVars, concVars>>

\* the retry queue and the two pushes, called one at a time
Next ==
    \/ CallSyncAccountsToCloud
    \/ CallSyncUnsubscribedToCloud
    \/ CallProcessQueue
    \/ AddAccount

Spec == Init /\ [][Next]_vars

\* the operations built on the pushes, called one at a time, while the
\* queue holds at most MaxDeviceQueue operations
DeviceBound == Len(pending') <= MaxDeviceQueue

DeviceNext ==
    \/ CallAutoSync /\ DeviceBound
    \/ CallPeriodicSync /\ DeviceBound
    \/ CallSyncAllAccounts /\ DeviceBound
    \/ AddAccount

DeviceSpec == Init /\ [][DeviceNext]_vars

(***************************************************************************)
(* The operations as goroutines.  StartupCheck, PeriodicSync, AutoSync and *)
(* the manual pull run concurrently on the device; a step is one request   *)
(* to the remote store or one access to a file, and the steps of different *)
(* operations interleave.  Other devices push in between.                  *)
(***************************************************************************)
Active == {t \in Goroutines : pc[t] # Idle}

MayStart(t) ==
    /\ pc[t] = Idle
    /\ Cardinality(Active) < MaxActive
    /\ runs < MaxRuns
    /\ IsPremiumEnabled(cfg)

Goto(t, label, l) ==
    /\ pc' = [pc EXCEPT ![t] = label]
    /\ loc' = [loc EXCEPT ![t] = IF label = Idle THEN NoLocals ELSE l]
    /\ runs' = IF pc[t] = Idle THEN runs + 1 ELSE runs

\* a variant in which ProcessQueue does not hold the lock of the queue
QueueLockNotHeld == FALSE

\* sq.mu is held by ProcessQueue from its first statement to its return
QueueLocked == pc["periodic"] \in {<<"retry">>, <<"commit">>}

\* the operations that have reached sq.mu.Lock() of QueueSync
AtQueueSync == {t \in {"periodic", "auto"} : \E coll \in Colls : pc[t] = <<"queue", coll>>}

SyncsAccounts(premiumConfig) ==
    premiumConfig.SyncAccounts \/ SettingsUnset(premiumConfig)
SyncsUnsubscribed(premiumConfig) ==
    premiumConfig.SyncUnsubscribed \/ SettingsUnset(premiumConfig)

\* where AutoSync / PeriodicSync go on: to the push of accounts, to the push
\* of the unsubscribed list, or to their return
FirstPush(premiumConfig) ==
    IF SyncsAccounts(premiumConfig) THEN <<"push", "accounts">>
    ELSE IF SyncsUnsubscribed(premiumConfig) THEN <<"push", "unsubscribed">>
    ELSE Idle
AfterPush(coll, premiumConfig) ==
    IF coll = "accounts" /\ SyncsUnsubscribed(premiumConfig)
    THEN <<"push", "unsubscribed">>
    ELSE Idle

WithVersion(premiumConfig, coll, version) ==
    IF coll = "accounts"
    THEN [premiumConfig EXCEPT !.LocalAccountsVersion = version]
    ELSE [premiumConfig EXCEPT !.LocalUnsubscribedVersion = version]
\* cfg.LastUnsubSync = time.Now() after a push of the unsubscribed list
WithSyncTime(premiumConfig, coll, now) ==
    IF coll = "unsubscribed" THEN [premiumConfig EXCEPT !.LastUnsubSync = now]
    ELSE premiumConfig
LocalVersion(premiumConfig, coll) ==
    IF coll = "accounts" THEN premiumConfig.LocalAccountsVersion
    ELSE premiumConfig.LocalUnsubscribedVersion

\* AutoSync and PeriodicSync read of their premiumConfig the sync settings
\* only: the copy is kept without the versions, which they never look at
Settings(premiumConfig) ==
    [premiumConfig EXCEPT !.LocalAccountsVersion = 0, !.LocalUnsubscribedVersion = 0,
                          !.LastUnsubSync = 0]

\* AutoSync up to its first push
AutoStart ==
    /\ MayStart("auto")
    /\ Goto("auto", FirstPush(GetPremiumConfig(cfg)),
            [NoLocals EXCEPT !.premiumConfig = Settings(GetPremiumConfig(cfg))])
    /\ UNCHANGED <<syncVars, mergeVars, fileVars, uiVars>>

\* PeriodicSync up to the loop of ProcessQueue or, with an empty queue, up to
\* its first push
PeriodicStart ==
    /\ MayStart("periodic")
    /\ IF GetPendingCount(pending) > 0
       THEN Goto("periodic", <<"retry">>,
                 [NoLocals EXCEPT !.premiumConfig = Settings(GetPremiumConfig(cfg)), !.i = 1])
       ELSE Goto("periodic", FirstPush(GetPremiumConfig(cfg)),
                 [NoLocals EXCEPT !.premiumConfig = Settings(GetPremiumConfig(cfg))])
    /\ UNCHANGED <<syncVars, mergeVars, fileVars, uiVars>>

\* one pass of the loop of ProcessQueue
Retry ==
    /\ pc["periodic"] = <<"retry">>
    /\ \E out \in Outcomes :
          LET l == loc["periodic"]
              item == pending[l.i]
              p == PushPending(World, item, out)
          IN  /\ WithinBounds(p.w)
              /\ remote' = p.w.remote
              /\ Goto("periodic",
                      IF l.i = Len(pending) THEN <<"commit">> ELSE <<"retry">>,
                      [l EXCEPT !.i = @ + 1, !.remaining = KeepAfter(@, item, p)])
    /\ UNCHANGED <<cfg, accounts, unsubscribed, pending, last, mergeVars, fileVars, uiVars>>

\* the end of ProcessQueue
Commit ==
    /\ pc["periodic"] = <<"commit">>
    /\ pending' = CommitRemaining(pending, loc["periodic"].remaining)
    /\ Goto("periodic", FirstPush(loc["periodic"].premiumConfig),
            [loc["periodic"] EXCEPT !.i = 0, !.remaining = <<>>])
    /\ UNCHANGED <<cfg, accounts, unsubscribed, remote, last, mergeVars, fileVars, uiVars>>

\* SyncAccountsToCloud / SyncUnsubscribedToCloud up to the answer to the request
Push(t, coll) ==
    /\ pc[t] = <<"push", coll>>
    /\ LET l == loc[t]
           body == IF coll = "accounts" THEN JSONArray(accounts)
                   ELSE JSONStore(unsubscribed)
       IN  IF ~IsPremiumEnabled(cfg)
           THEN /\ Goto(t, AfterPush(coll, l.premiumConfig), l)
                /\ UNCHANGED remote
           ELSE \E out \in Outcomes :
                   LET r == Update(World, coll, body, out)
                   IN  /\ WithinBounds(r.w)
                       /\ remote' = r.w.remote
                       /\ IF r.err = NoErr
                          THEN Goto(t, <<"remember", coll>>, [l EXCEPT !.version = r.version])
                          ELSE IF isSubscriptionError(r.err)
                          THEN Goto(t, AfterPush(coll, l.premiumConfig), l)
                          ELSE Goto(t, <<"queue", coll>>, [l EXCEPT !.doc = body])
    /\ UNCHANGED <<cfg, accounts, unsubscribed, pending, last, mergeVars, fileVars, uiVars>>

\* QueueSync after a failed push
Queue(t, coll) ==
    /\ pc[t] = <<"queue", coll>>
    /\ ~QueueLocked
    /\ pending' = QueueSync(pending, coll, loc[t].doc)
    /\ Len(pending') <= MaxWaiting
    /\ Goto(t, AfterPush(coll, loc[t].premiumConfig), [loc[t] EXCEPT !.doc = JSONNull])
    /\ UNCHANGED <<cfg, accounts, unsubscribed, remote, last, mergeVars, fileVars, uiVars>>

\* GetPremiumConfig after a push that succeeded, and the assignment of the
\* version that the remote store answered
Remember(t, coll) ==
    /\ pc[t] = <<"remember", coll>>
    /\ Goto(t, <<"save", coll>>,
            [loc[t] EXCEPT
                !.toSave = WithSyncTime(WithVersion(GetPremiumConfig(cfg), coll,
                                                    RememberedVersion(loc[t].version)),
                                        coll, Now(World)),
                !.version = 0])
    /\ UNCHANGED <<syncVars, mergeVars, fileVars, uiVars>>

\* SavePremiumConfig after a push that succeeded
Save(t, coll) ==
    /\ pc[t] = <<"save", coll>>
    /\ cfg' = loc[t].toSave
    /\ Goto(t, AfterPush(coll, loc[t].premiumConfig), [loc[t] EXCEPT !.toSave = NoConfig])
    /\ UNCHANGED <<accounts, unsubscribed, pending, remote, last, mergeVars, fileVars, uiVars>>

\* CheckAndSyncIfNeeded up to its first request
StartupStart ==
    /\ MayStart("startup")
    /\ Goto("startup", <<"check", "accounts">>,
            [NoLocals EXCEPT !.premiumConfig = GetPremiumConfig(cfg)])
    /\ UNCHANGED <<syncVars, mergeVars, fileVars, uiVars>>

\* client.GetAccounts / client.GetUnsubscribed of CheckAndSyncIfNeeded and
\* the comparison of the version with the remembered one
Check(coll) ==
    /\ pc["startup"] = <<"check", coll>>
    /\ \E out \in Outcomes :
          LET l == loc["startup"]
              g == Get(World, coll, out)
          IN  IF g.err = NoErr /\ g.version > LocalVersion(l.premiumConfig, coll)
              THEN Goto("startup", <<"pull", coll>>, [l EXCEPT !.version = g.version])
              ELSE Goto("startup",
                        IF coll = "accounts" THEN <<"check", "unsubscribed">>
                        ELSE <<"finish">>, l)
    /\ UNCHANGED <<syncVars, mergeVars, fileVars, uiVars>>

\* the manual pull up to its first request
ManualStart ==
    /\ MayStart("manual")
    /\ Goto("manual", <<"pull", "accounts">>, NoLocals)
    /\ UNCHANGED <<syncVars, mergeVars, fileVars, uiVars>>

\* SyncAccountsFromCloud
PullAccounts(t) ==
    /\ pc[t] = <<"pull", "accounts">>
    /\ \E out \in Outcomes :
          LET l == loc[t]
              r == SyncAccountsFromCloud(World, out)
          IN  IF r.err = NoErr
              THEN Goto(t, IF t = "startup" THEN <<"merge", "accounts">>
                           ELSE <<"pull", "unsubscribed">>,
                        [l EXCEPT !.items = r.accounts])
              ELSE Goto(t, IF t = "startup" THEN <<"check", "unsubscribed">> ELSE Idle,
                        [l EXCEPT !.version = 0])
    /\ UNCHANGED <<syncVars, mergeVars, fileVars, uiVars>>

\* the merge of the pulled accounts in CheckAndSyncIfNeeded
MergeAccounts ==
    /\ pc["startup"] = <<"merge", "accounts">>
    /\ LET l == loc["startup"]
           merged == AddMissingAccounts(accounts, l.items)
       IN  /\ accounts' = merged
           /\ Goto("startup", <<"check", "unsubscribed">>,
                   [l EXCEPT
                       !.premiumConfig = WithVersion(@, "accounts", l.version),
                       !.synced = @ \/ merged # accounts,
                       !.version = 0, !.items = <<>>])
    /\ UNCHANGED <<cfg, unsubscribed, pending, remote, last, mergeVars, fileVars, uiVars>>

\* SyncUnsubscribedFromCloud up to the answer to its request
PullUnsubscribed(t) ==
    /\ pc[t] = <<"pull", "unsubscribed">>
    /\ \E out \in Outcomes :
          LET l == loc[t]
              g == Get(World, "unsubscribed", out)
          IN  IF ~IsPremiumEnabled(cfg) \/ g.err # NoErr
              THEN Goto(t, IF t = "startup" THEN <<"finish">> ELSE Idle,
                        [l EXCEPT !.version = 0])
              ELSE Goto(t, <<"rememberPulled">>,
                        [l EXCEPT !.pulled = g.version, !.doc = g.body])
    /\ UNCHANGED <<syncVars, mergeVars, fileVars, uiVars>>

\* SyncUnsubscribedFromCloud: GetPremiumConfig and the assignment of the
\* version pulled
RememberPulled(t) ==
    /\ pc[t] = <<"rememberPulled">>
    /\ Goto(t, <<"savePulled">>,
            [loc[t] EXCEPT
                !.toSave = WithVersion(GetPremiumConfig(cfg), "unsubscribed",
                                       RememberedVersion(loc[t].pulled)),
                !.pulled = 0])
    /\ UNCHANGED <<syncVars, mergeVars, fileVars, uiVars>>

\* SyncUnsubscribedFromCloud: SavePremiumConfig, then json.Unmarshal of what
\* was pulled
SavePulled(t) ==
    /\ pc[t] = <<"savePulled">>
    /\ cfg' = loc[t].toSave
    /\ LET l == [loc[t] EXCEPT !.toSave = NoConfig, !.doc = JSONNull]
       IN  IF UnmarshalStoreOK(loc[t].doc)
           THEN Goto(t, IF t = "startup" THEN <<"merge", "unsubscribed">>
                        ELSE <<"merge", "both">>,
                     [l EXCEPT !.newsletters = loc[t].doc.items])
           ELSE Goto(t, IF t = "startup" THEN <<"finish">> ELSE Idle,
                     [l EXCEPT !.version = 0])
    /\ UNCHANGED <<accounts, unsubscribed, pending, remote, last, mergeVars, fileVars, uiVars>>

\* the merge of the pulled unsubscribed list in CheckAndSyncIfNeeded
MergeUnsubscribed ==
    /\ pc["startup"] = <<"merge", "unsubscribed">>
    /\ LET l == loc["startup"]
           merged == AddMissingNewsletters(unsubscribed, l.newsletters)
       IN  /\ unsubscribed' = merged
           /\ Goto("startup", <<"finish">>,
                   [l EXCEPT
                       !.premiumConfig = WithVersion(@, "unsubscribed", l.version),
                       !.synced = @ \/ merged # unsubscribed,
                       !.version = 0, !.newsletters = <<>>])
    /\ UNCHANGED <<cfg, accounts, pending, remote, last, mergeVars, fileVars, uiVars>>

\* the end of CheckAndSyncIfNeeded: SavePremiumConfig(premiumConfig) if synced
Finish ==
    /\ pc["startup"] = <<"finish">>
    /\ cfg' = IF loc["startup"].synced THEN loc["startup"].premiumConfig ELSE cfg
    /\ Goto("startup", Idle, NoLocals)
    /\ UNCHANGED <<accounts, unsubscribed, pending, remote, last, mergeVars, fileVars, uiVars>>

\* the two merges of the manual pull
MergeBoth ==
    /\ pc["manual"] = <<"merge", "both">>
    /\ unsubscribed' = AddMissingNewsletters(unsubscribed, loc["manual"].newsletters)
    /\ accounts' = AddMissingAccounts(accounts, loc["manual"].items)
    /\ Goto("manual", Idle, NoLocals)
    /\ UNCHANGED <<cfg, pending, remote, last, mergeVars, fileVars, uiVars>>

\* what another device of the user holds and pushes
OtherUnsubscribed == UnsubscribedNewsletter("news@s1", 1)
OtherDeviceBody(coll) ==
    IF coll = "accounts" THEN JSONArray(<<LocalAccount, OtherAccount>>)
    ELSE JSONStore(<<LocalUnsubscribed, OtherUnsubscribed>>)

\* a push by another device
OtherDevicePush ==
    /\ \E coll \in Colls :
          /\ remote[coll].version < MaxVersion
          /\ remote' = [remote EXCEPT ![coll] =
                           [body |-> OtherDeviceBody(coll), version |-> @.version + 1]]
    /\ UNCHANGED <<cfg, accounts, unsubscribed, pending, last, mergeVars, fileVars, uiVars, concVars>>

Pushers == {"periodic", "auto"}
Pullers == {"startup", "manual"}

ConcNext ==
    \/ StartupStart
    \/ \E coll \in Colls : Check(coll)
    \/ MergeAccounts
    \/ MergeUnsubscribed
    \/ Finish
    \/ ManualStart
    \/ \E t \in Pullers : PullAccounts(t)
    \/ \E t \in Pullers : PullUnsubscribed(t)
    \/ \E t \in Pullers : RememberPulled(t)
    \/ \E t \in Pullers : SavePulled(t)
    \/ MergeBoth
    \/ AutoStart
    \/ PeriodicStart
    \/ Retry
    \/ Commit
    \/ \E t \in Pushers, coll \in Colls : Push(t, coll)
    \/ \E t \in Pushers, coll \in Colls : Queue(t, coll)
    \/ \E t \in Pushers, coll \in Colls : Remember(t, coll)
    \/ \E t \in Pushers, coll \in Colls : Save(t, coll)
    \/ OtherDevicePush

ConcInit == Init /\ IsPremiumEnabled(cfg)

ConcSpec == ConcInit /\ [][ConcNext]_vars

(***************************************************************************)
(* StartupCheck called on its own, between pushes of this device and of    *)
(* other devices.                                                          *)
(***************************************************************************)
\* what the four requests of CheckAndSyncIfNeeded come back with; a pull is
\* only made after its version check was answered, and has an outcome then
StartupOutcomes ==
    {o \in [checkAccounts : Outcomes, pullAccounts : Outcomes,
            checkUnsubscribed : Outcomes, pullUnsubscribed : Outcomes] :
        /\ o.checkAccounts # NoErr => o.pullAccounts = NoErr
        /\ o.checkUnsubscribed # NoErr => o.pullUnsubscribed = NoErr}

\* the state CheckAndSyncIfNeeded was called on
Was == [cfg |-> cfg, accounts |-> accounts, unsubscribed |-> unsubscribed,
        remote |-> remote]

CallCheckAndSyncIfNeeded ==
    \E outs \in StartupOutcomes :
       \E r \in {CheckAndSyncIfNeeded(World, outs)} :
          /\ WithinBounds(r.w)
          /\ cfg' = r.w.cfg
          /\ accounts' = r.w.accounts
          /\ unsubscribed' = r.w.unsubscribed
          /\ pending' = r.w.pending
          /\ remote' = r.w.remote
          /\ last' = [op |-> "CheckAndSyncIfNeeded", err |-> r.err, before |-> pending,
                      attempts |-> <<>>, calls |-> r.w.calls, was |-> Was]
          /\ UNCHANGED <<mergeVars, fileVars, uiVars, concVars>>

\* the first account as another device has edited it
EditedAccount == Account(FocusID, "New", "a@x", "imap1", "enc1", MaxTime)
\* the first newsletter as another device has unsubscribed from it
EarlierUnsubscribed == UnsubscribedNewsletter("news@s0", 0)

\* what other devices push: their accounts, and their unsubscribed list in
\* the document of SyncUnsubscribedToCloud or in the one of a queued retry
OtherDeviceBodies(coll) ==
    IF coll = "accounts"
    THEN {JSONArray(<<LocalAccount>>),
          JSONArray(<<LocalAccount, OtherAccount>>),
          JSONArray(<<EditedAccount, OtherAccount>>)}
    ELSE {JSONStore(<<LocalUnsubscribed>>),
          JSONStore(<<EarlierUnsubscribed, OtherUnsubscribed>>),
          JSONArray(<<OtherUnsubscribed>>)}

OtherDeviceUpdate ==
    /\ \E coll \in Colls :
          /\ remote[coll].version < MaxVersion
          /\ \E body \in OtherDeviceBodies(coll) :
                remote' = [remote EXCEPT ![coll] =
                              [body |-> body, version |-> @.version + 1]]
    /\ last' = NoLast
    /\ UNCHANGED <<cfg, accounts, unsubscribed, pending, mergeVars, fileVars, uiVars, concVars>>

StartupNext ==
    \/ CallCheckAndSyncIfNeeded
    \/ OtherDeviceUpdate
    \/ CallSyncAccountsToCloud /\ DeviceBound
    \/ CallSyncUnsubscribedToCloud /\ DeviceBound
    \/ AddAccount

StartupSpec == Init /\ [][StartupNext]_vars

(***************************************************************************)
(* The pushes of this device while other devices push to the same store    *)
(***************************************************************************)
TwoDeviceNext ==
    \/ OtherDeviceUpdate
    \/ CallAutoSync /\ DeviceBound
    \/ CallPeriodicSync /\ DeviceBound

TwoDeviceSpec == Init /\ [][TwoDeviceNext]_vars

(***************************************************************************)
(* The sync settings switched on the settings screen between the syncs     *)
(***************************************************************************)
\* updateSyncSettings, key "3" or "4": the setting of the collection is
\* inverted in the configuration as read and the file is written
ToggleSync(coll) ==
    /\ cfg' = IF coll = "accounts"
              THEN [GetPremiumConfig(cfg) EXCEPT !.SyncAccounts = ~@]
              ELSE [GetPremiumConfig(cfg) EXCEPT !.SyncUnsubscribed = ~@]
    /\ last' = NoLast
    /\ UNCHANGED <<accounts, unsubscribed, pending, remote, mergeVars, fileVars, uiVars, concVars>>

SettingsNext ==
    \/ \E coll \in Colls : ToggleSync(coll)
    \/ CallAutoSync /\ DeviceBound
    \/ CallPeriodicSync /\ DeviceBound

SettingsSpec == Init /\ [][SettingsNext]_vars

(***************************************************************************)
(* The operations while premium is not enabled: after the premium account  *)
(* was removed (Enabled false, no token), or with no token stored.  The    *)
(* retry queue may still hold operations of the time before.               *)
(***************************************************************************)
NotEnabledConfigs ==
    {PremiumConfig(FALSE, "", TRUE, TRUE, DefaultInterval, TRUE, TRUE),
     PremiumConfig(TRUE, "", TRUE, TRUE, DefaultInterval, TRUE, TRUE)}

LeftQueues ==
    {<<>>,
     <<PendingSync("accounts", JSONArray(<<LocalAccount>>), 0, NoErr)>>,
     <<PendingSync("unsubscribed", JSONStore(<<LocalUnsubscribed>>), 0, NoErr),
       PendingSync("accounts", JSONArray(<<LocalAccount>>), 0, NoErr)>>}

NotEnabledInit ==
    /\ cfg \in NotEnabledConfigs
    /\ accounts = <<LocalAccount>>
    /\ unsubscribed = <<LocalUnsubscribed>>
    /\ pending \in LeftQueues
    /\ remote = [c \in Colls |-> [body |-> JSONNull, version |-> 0]]
    /\ last = NoLast
    /\ MergeIdle
    /\ ConcIdle
    /\ FileIdle
    /\ UIIdle

NotEnabledNext ==
    \/ CallPeriodicSync
    \/ CallAutoSync
    \/ CallCheckAndSyncIfNeeded
    \/ CallProcessQueue
    \/ OtherDeviceUpdate
    \/ AddAccount

NotEnabledSpec == NotEnabledInit /\ [][NotEnabledNext]_vars

(***************************************************************************)
(* The queue and the configuration with their files: every write of        *)
(* sync_queue.json and of premium.json can fail or be cut short, and the   *)
(* process can be started again.  cfg is what premium.json gives when read.*)
(***************************************************************************)
FilesOf(config) ==
    [f \in Files |->
        IF f = "premium.json" /\ config # ReadPremiumConfig(NoFile)
        THEN JSONFile(MarshalPremiumConfig(config))
        ELSE NoFile]

FileInit ==
    /\ cfg \in InitConfigs
    /\ accounts = <<LocalAccount>>
    /\ unsubscribed = <<LocalUnsubscribed>>
    /\ pending = <<>>
    /\ remote = [c \in Colls |-> [body |-> JSONNull, version |-> 0]]
    /\ last = NoLast
    /\ files = FilesOf(cfg)
    /\ proc = "running"
    /\ MergeIdle
    /\ ConcIdle
    /\ UIIdle

\* the handler op leaves the state w and the files fs and returns err, or
\* has died in a write; more holds what else is recorded of the call
FileReturns(op, w, fs, err, crashed, more) ==
    /\ proc = "running"
    /\ WithinBounds(w)
    /\ Now(w) <= MaxFilePushes
    /\ cfg' = ReadPremiumConfig(fs["premium.json"])
    /\ accounts' = w.accounts
    /\ unsubscribed' = w.unsubscribed
    /\ pending' = w.pending
    /\ remote' = w.remote
    /\ files' = fs
    /\ proc' = IF crashed THEN "crashed" ELSE "running"
    /\ last' = [op |-> op, err |-> err, before |-> pending, attempts |-> more.attempts,
                calls |-> w.calls, queued |-> more.queued, saveErr |-> more.saveErr]
    /\ UNCHANGED <<mergeVars, concVars, uiVars>>

NotSaved == [files |-> files, err |-> NoErr, crashed |-> FALSE]

\* SyncQueue.QueueSync, called with the local collection
CallQueueSync ==
    \E coll \in Colls, out \in WriteOutcomes :
       LET dataJSON == IF coll = "accounts" THEN JSONArray(accounts)
                       ELSE JSONStore(unsubscribed)
           w == [World EXCEPT !.pending = QueueSync(@, coll, dataJSON)]
       IN  \E s \in {save(w.pending, files, out)} :
              FileReturns("QueueSync", w, s.files, s.err, s.crashed,
                          [attempts |-> <<>>, saveErr |-> s.err,
                           queued |-> PendingSync(coll, dataJSON, 0, NoErr)])

\* SyncQueue.ProcessQueue with the sq.save() after its loop, whose result is
\* not looked at
CallProcessQueueSaving ==
    \E outs \in [1..Len(pending) -> Outcomes], out \in WriteOutcomes :
       \E r \in {ProcessQueue(World, outs)} :
          \E s \in {IF IsPremiumEnabled(cfg) /\ Len(pending) > 0
                    THEN save(r.w.pending, files, out) ELSE NotSaved} :
             FileReturns("ProcessQueue", r.w, s.files, r.err, s.crashed,
                         [attempts |-> r.attempts, saveErr |-> s.err, queued |-> <<>>])

\* SyncAccountsToCloud / SyncUnsubscribedToCloud with their writes: of the
\* queue file by QueueSync after a failed push, whose result is not looked
\* at, and of premium.json by SavePremiumConfig after a push that succeeded
CallPushSaving ==
    \E coll \in Colls, out \in Outcomes, fo \in WriteOutcomes :
       \E r \in {IF coll = "accounts" THEN SyncAccountsToCloud(World, out)
                 ELSE SyncUnsubscribedToCloud(World, out)} :
          IF r.w.pending # pending
          THEN \E s \in {save(r.w.pending, files, fo)} :
                  FileReturns("push", r.w, s.files, r.err, s.crashed,
                              [attempts |-> <<>>, saveErr |-> s.err, queued |-> <<>>])
          ELSE IF r.err = NoErr
          THEN \E s \in {SavePremiumConfig(r.w.cfg, files, fo)} :
                  FileReturns("push", r.w, s.files, s.err, s.crashed,
                              [attempts |-> <<>>, saveErr |-> s.err, queued |-> <<>>])
          ELSE FileReturns("push", r.w, files, r.err, FALSE,
                           [attempts |-> <<>>, saveErr |-> NoErr, queued |-> <<>>])

\* the application is started (again): GetSyncQueue loads the queue file
Restart ==
    /\ pending' = load(files["sync_queue.json"])
    /\ cfg' = ReadPremiumConfig(files["premium.json"])
    /\ proc' = "running"
    /\ last' = NoLast
    /\ UNCHANGED <<accounts, unsubscribed, remote, files, mergeVars, concVars, uiVars>>

FileNext ==
    \/ CallQueueSync
    \/ CallProcessQueueSaving
    \/ CallPushSaving
    \/ Restart

FileSpec == FileInit /\ [][FileNext]_vars

(***************************************************************************)
(* The device with a periodic timer that keeps firing.  The versions of    *)
(* the remote store are capped: PeriodicSync is invoked as long as the cap *)
(* leaves room for every push of the run to be accepted.                   *)
(***************************************************************************)
QueuedFor(coll) == Cardinality({j \in DOMAIN pending : pending[j].Type = coll})
HasRoom == \A coll \in Colls : remote[coll].version + QueuedFor(coll) + 1 <= MaxVersion

TimedPeriodicSync == HasRoom /\ CallPeriodicSync /\ DeviceBound

LiveNext ==
    \/ TimedPeriodicSync
    \/ CallAutoSync /\ DeviceBound
    \/ AddAccount

LiveSpec == Init /\ [][LiveNext]_vars /\ WF_vars(TimedPeriodicSync)

(***************************************************************************)
(* The UI runtime.  A command runs on its own and may hand a message to    *)
(* appModel.Update; tea.Tick is a command that waits for the interval and  *)
(* hands over one message.  Update handles the messages one at a time and  *)
(* may start commands.                                                     *)
(***************************************************************************)
Without(seq, i) == SubSeq(seq, 1, i - 1) \o SubSeq(seq, i + 1, Len(seq))
Running(cmd) == {i \in DOMAIN cmds : cmds[i] = cmd}

\* the commands of appModel.Init that sync: the startup check when
\* autoSyncOnStartup, and the timer (periodicSyncEnabled starts as true and is
\* only ever assigned true)
InitCmds(premiumEnabled, conf) ==
    IF ~premiumEnabled THEN <<>>
    ELSE (IF SettingsUnset(conf) \/ conf.AutoSyncOnStartup
          THEN <<"checkAndSyncOnStartup">> ELSE <<>>)
         \o <<"tick">>

TickInit ==
    /\ cfg \in InitConfigs
    /\ accounts = <<LocalAccount>>
    /\ unsubscribed = <<LocalUnsubscribed>>
    /\ pending = <<>>
    /\ remote = [c \in Colls |-> [body |-> JSONNull, version |-> 0]]
    /\ last = NoLast
    /\ cmds = InitCmds(GetPremiumConfig(cfg).Enabled, GetPremiumConfig(cfg))
    /\ inbox = <<>>
    /\ MergeIdle
    /\ ConcIdle
    /\ FileIdle

\* the timer expires: the function handed to tea.Tick returns periodicSyncTick
TickFires ==
    \E i \in Running("tick") :
       /\ cmds' = Without(cmds, i)
       /\ inbox' = Append(inbox, "periodicSyncTick")
       /\ UNCHANGED <<syncVars, mergeVars, concVars, fileVars>>

\* the command of appModel.periodicSync: PeriodicSync, then a nil message
RunPeriodicSync ==
    \E i \in Running("periodicSync") :
       \E oq \in [1..Len(pending) -> Outcomes], oa \in Outcomes, ou \in Outcomes :
          \E r \in {PeriodicSync(World, [queue |-> oq, accounts |-> oa,
                                         unsubscribed |-> ou])} :
             /\ WithinBounds(r.w)
             /\ cfg' = r.w.cfg
             /\ pending' = r.w.pending
             /\ remote' = r.w.remote
             /\ last' = [op |-> "PeriodicSync", err |-> r.err, before |-> pending,
                         attempts |-> r.attempts, calls |-> r.w.calls]
             /\ cmds' = Without(cmds, i)
             /\ UNCHANGED <<accounts, unsubscribed, inbox, mergeVars, concVars, fileVars>>

\* the command of appModel.checkAndSyncOnStartup
RunCheckAndSyncOnStartup ==
    \E i \in Running("checkAndSyncOnStartup") :
       \E outs \in StartupOutcomes :
          \E r \in {CheckAndSyncIfNeeded(World, outs)} :
             /\ cfg' = r.w.cfg
             /\ accounts' = r.w.accounts
             /\ unsubscribed' = r.w.unsubscribed
             /\ last' = [op |-> "CheckAndSyncIfNeeded", err |-> r.err, before |-> pending,
                         attempts |-> <<>>, calls |-> r.w.calls, was |-> Was]
             /\ cmds' = Without(cmds, i)
             /\ inbox' = Append(inbox, "autoSyncCompleteMsg")
             /\ UNCHANGED <<pending, remote, mergeVars, concVars, fileVars>>

\* appModel.Update for the messages of the sync commands
UpdateApp ==
    /\ inbox # <<>>
    /\ inbox' = Tail(inbox)
    /\ cmds' = IF Head(inbox) = "periodicSyncTick" THEN Append(cmds, "periodicSync")
               ELSE cmds
    /\ UNCHANGED <<syncVars, mergeVars, concVars, fileVars>>

TickNext ==
    \/ TickFires
    \/ RunPeriodicSync
    \/ RunCheckAndSyncOnStartup
    \/ UpdateApp
    \/ AddAccount

\* the runtime delivers every message and runs every command
TickSpec ==
    /\ TickInit
    /\ [][TickNext]_vars
    /\ WF_vars(TickFires)
    /\ WF_vars(RunPeriodicSync)
    /\ WF_vars(RunCheckAndSyncOnStartup)
    /\ WF_vars(UpdateApp)

(***************************************************************************)
(* The retry of one queued operation, for every retry count                *)
(***************************************************************************)
BackoffInit ==
    /\ cfg = PremiumConfig(TRUE, "jwt", TRUE, TRUE, DefaultInterval, TRUE, TRUE)
    /\ accounts = <<LocalAccount>>
    /\ unsubscribed = <<LocalUnsubscribed>>
    /\ \E retries \in 0..MaxRetries :
          pending \in {<<PendingSync("accounts", JSONArray(<<LocalAccount>>), retries, ErrTimeout)>>,
                       <<PendingSync("unsubscribed", JSONStore(<<LocalUnsubscribed>>), retries, ErrTimeout)>>}
    /\ remote = [c \in Colls |-> [body |-> JSONNull, version |-> 0]]
    /\ last = NoLast
    /\ MergeIdle
    /\ ConcIdle
    /\ FileIdle
    /\ UIIdle

\* syncAccountsWithRetry / syncUnsubscribedWithRetry for the operation at the
\* head of the queue: the sleep, then the request
CallSyncWithRetry ==
    /\ last.op = "none"
    /\ \E out \in Outcomes :
          LET item == pending[1]
              p == PushPending(World, item, out)
          IN  /\ remote' = p.w.remote
              /\ last' = [op |-> "syncWithRetry", err |-> p.pushErr, before |-> pending,
                          attempts |-> <<>>, calls |-> p.w.calls,
                          slept |-> Slept(Backoff(item.Retries))]
    /\ UNCHANGED <<cfg, accounts, unsubscribed, pending, mergeVars, concVars, fileVars, uiVars>>

BackoffNext == CallSyncWithRetry

BackoffSpec == BackoffInit /\ [][BackoffNext]_vars

(***************************************************************************)
(* The merge applied to bounded inputs                                     *)
(***************************************************************************)
SyncIdle ==
    /\ cfg = PremiumConfig(FALSE, "", TRUE, TRUE, DefaultInterval, TRUE, TRUE)
    /\ accounts = <<>>
    /\ unsubscribed = <<>>
    /\ pending = <<>>
    /\ remote = [c \in Colls |-> [body |-> JSONNull, version |-> 0]]
    /\ last = NoLast

MergeInit ==
    /\ mLocal \in SideLists(FocusAccounts)
    /\ mCloud \in SideLists(FocusAccounts)
    /\ mBase \in SideLists(FocusBases)
    /\ mMerged = <<>>
    /\ mConflicts = <<>>
    /\ mPhase = "input"
    /\ sums = <<>>
    /\ SyncIdle
    /\ ConcIdle
    /\ FileIdle
    /\ UIIdle

CallThreeWayMergeAccounts ==
    /\ mPhase = "input"
    /\ \E ord \in Orders(AllIDs(mLocal, mCloud)) :
          LET r == ThreeWayMergeAccounts(mLocal, mCloud, mBase, ord)
          IN  /\ mMerged' = r.result
              /\ mConflicts' = r.conflicts
    /\ mPhase' = "merged"
    /\ UNCHANGED <<mLocal, mCloud, mBase, sums, syncVars, fileVars, uiVars, concVars>>

\* ThreeWayMergeAccounts called once more with the same arguments
RepeatThreeWayMergeAccounts ==
    /\ mPhase = "merged"
    /\ \E ord \in Orders(AllIDs(mLocal, mCloud)) :
          LET r == ThreeWayMergeAccounts(mLocal, mCloud, mBase, ord)
          IN  /\ mMerged' = r.result
              /\ mConflicts' = r.conflicts
    /\ UNCHANGED <<mLocal, mCloud, mBase, mPhase, sums, syncVars, fileVars, uiVars, concVars>>

\* the merge of unsubscribed lists applied to bounded inputs
UnsubMergeInit ==
    /\ mLocal \in UnsubLists
    /\ mCloud \in UnsubLists
    /\ mBase \in UnsubLists
    /\ mMerged = <<>>
    /\ mConflicts = <<>>
    /\ mPhase = "inputUnsubscribed"
    /\ sums = <<>>
    /\ SyncIdle
    /\ ConcIdle
    /\ FileIdle
    /\ UIIdle

CallThreeWayMergeUnsubscribed ==
    /\ mPhase = "inputUnsubscribed"
    /\ \E ord \in Orders(AllSenders(mLocal, mCloud)) :
          LET r == ThreeWayMergeUnsubscribed(mLocal, mCloud, mBase, ord)
          IN  /\ mMerged' = r.result
              /\ mConflicts' = r.conflicts
    /\ mPhase' = "mergedUnsubscribed"
    /\ UNCHANGED <<mLocal, mCloud, mBase, sums, syncVars, fileVars, uiVars, concVars>>

\* ThreeWayMergeUnsubscribed called once more with the same arguments
RepeatThreeWayMergeUnsubscribed ==
    /\ mPhase = "mergedUnsubscribed"
    /\ \E ord \in Orders(AllSenders(mLocal, mCloud)) :
          LET r == ThreeWayMergeUnsubscribed(mLocal, mCloud, mBase, ord)
          IN  /\ mMerged' = r.result
              /\ mConflicts' = r.conflicts
    /\ UNCHANGED <<mLocal, mCloud, mBase, mPhase, sums, syncVars, fileVars, uiVars, concVars>>

MergeNext ==
    \/ CallThreeWayMergeAccounts
    \/ RepeatThreeWayMergeAccounts
    \/ CallThreeWayMergeUnsubscribed
    \/ RepeatThreeWayMergeUnsubscribed

MergeSpec == (MergeInit \/ UnsubMergeInit) /\ [][MergeNext]_vars

(***************************************************************************)
(* The merges applied to lists that may hold an identifier twice           *)
(***************************************************************************)
\* the lists of at most two of the entities
ListsOf(entities) ==
    {<<>>} \cup {<<a>> : a \in entities} \cup {<<a, b>> : a \in entities, b \in entities}

RepeatingAccounts == ListsOf({LocalAccount, EditedAccount, OtherAccount})
RepeatingNewsletters == ListsOf({LocalUnsubscribed, EarlierUnsubscribed, OtherUnsubscribed})

RepeatingInit ==
    /\ \/ /\ mLocal \in RepeatingAccounts
          /\ mCloud \in RepeatingAccounts
          /\ mBase \in RepeatingAccounts
          /\ mPhase = "input"
       \/ /\ mLocal \in RepeatingNewsletters
          /\ mCloud \in RepeatingNewsletters
          /\ mBase \in RepeatingNewsletters
          /\ mPhase = "inputUnsubscribed"
    /\ mMerged = <<>>
    /\ mConflicts = <<>>
    /\ sums = <<>>
    /\ SyncIdle
    /\ ConcIdle
    /\ FileIdle
    /\ UIIdle

RepeatingNext ==
    \/ CallThreeWayMergeAccounts
    \/ CallThreeWayMergeUnsubscribed

RepeatingSpec == RepeatingInit /\ [][RepeatingNext]_vars

(***************************************************************************)
(* The checksums applied to bounded inputs                                 *)
(***************************************************************************)
ChecksumInit ==
    /\ \/ /\ mLocal \in Arrangements(SideLists(FocusBases))
          /\ mCloud \in Arrangements(SideLists(FocusAccounts))
          /\ mPhase = "lists"
       \/ /\ mLocal \in Arrangements(UnsubLists)
          /\ mCloud \in Arrangements(UnsubLists)
          /\ mPhase = "listsUnsubscribed"
    /\ mBase = <<>>
    /\ mMerged = <<>>
    /\ mConflicts = <<>>
    /\ sums = <<>>
    /\ SyncIdle
    /\ ConcIdle
    /\ FileIdle
    /\ UIIdle

CallCalculateChecksum ==
    /\ mPhase = "lists"
    /\ sums' = <<CalculateChecksum(mLocal), CalculateChecksum(mCloud)>>
    /\ mPhase' = "checksummed"
    /\ UNCHANGED <<mLocal, mCloud, mBase, mMerged, mConflicts, syncVars, fileVars, uiVars, concVars>>

CallCalculateUnsubscribedChecksum ==
    /\ mPhase = "listsUnsubscribed"
    /\ sums' = <<CalculateUnsubscribedChecksum(mLocal),
                 CalculateUnsubscribedChecksum(mCloud)>>
    /\ mPhase' = "checksummed"
    /\ UNCHANGED <<mLocal, mCloud, mBase, mMerged, mConflicts, syncVars, fileVars, uiVars, concVars>>

ChecksumNext ==
    \/ CallCalculateChecksum
    \/ CallCalculateUnsubscribedChecksum

ChecksumSpec == ChecksumInit /\ [][ChecksumNext]_vars

(***************************************************************************)
(* Properties of ThreeWayMergeAccounts                                     *)
(***************************************************************************)
localMap == AccountMap(mLocal)
cloudMap == AccountMap(mCloud)
baseMap == AccountMap(mBase)

\* the entries of the merged list that carry an identifier
MergedIndexes(id) == {i \in DOMAIN mMerged : mMerged[i].ID = id}
MergedIs(id, acc) ==
    /\ Cardinality(MergedIndexes(id)) = 1
    /\ \A i \in MergedIndexes(id) : mMerged[i] = acc

ConflictsOf(id) == {i \in DOMAIN mConflicts : mConflicts[i].ID = id}

\* the fields of an account beside its identifier, with the tag a conflict
\* record names them by
AccountFields == {"Name", "Email", "Server", "Password", "CreatedAt"}
FieldTag(f) ==
    CASE f = "Name" -> "name"
      [] f = "Email" -> "email"
      [] f = "Server" -> "server"
      [] f = "Password" -> "password"
      [] f = "CreatedAt" -> "created_at"

ConflictRecorded(id, f) ==
    Cardinality({i \in ConflictsOf(id) :
                    /\ mConflicts[i].Type = "account"
                    /\ mConflicts[i].Field = FieldTag(f)
                    /\ mConflicts[i].Local = localMap[id][f]
                    /\ mConflicts[i].Cloud = cloudMap[id][f]}) = 1

InAllThree == DOMAIN localMap \cap DOMAIN cloudMap \cap DOMAIN baseMap
InBothNoBase == (DOMAIN localMap \cap DOMAIN cloudMap) \ DOMAIN baseMap

\* C8: for an account in local, remote and base where both sides differ from
\* base, one conflict is recorded for every field on which local and remote
\* disagree, and the merged account is the local account.
C8_ConflictPerDisagreeingField ==
    mPhase = "merged" =>
        \A id \in InAllThree :
            (localMap[id] # baseMap[id] /\ cloudMap[id] # baseMap[id]) =>
                /\ \A f \in AccountFields :
                      localMap[id][f] # cloudMap[id][f] => ConflictRecorded(id, f)
                /\ MergedIs(id, localMap[id])

\* C9: for an account in local, remote and base where exactly one side
\* differs from base in any field, the merged account is the changed side
\* and no conflict is recorded for it.
C9_OneSideChangedWins ==
    mPhase = "merged" =>
        \A id \in InAllThree :
            /\ (localMap[id] # baseMap[id] /\ cloudMap[id] = baseMap[id]) =>
                  (MergedIs(id, localMap[id]) /\ ConflictsOf(id) = {})
            /\ (cloudMap[id] # baseMap[id] /\ localMap[id] = baseMap[id]) =>
                  (MergedIs(id, cloudMap[id]) /\ ConflictsOf(id) = {})

\* C10: for an account in local and remote but not in base, the merged list
\* holds the side with the later creation timestamp, and the local side when
\* the timestamps are equal.
C10_NoBaseLaterWinsTieLocal ==
    mPhase = "merged" =>
        \A id \in InBothNoBase :
            MergedIs(id, IF cloudMap[id].CreatedAt > localMap[id].CreatedAt
                         THEN cloudMap[id] ELSE localMap[id])

\* a merge of an account without base whose two sides differ and carry the
\* same timestamp
C10_Witness ==
    /\ mPhase = "merged"
    /\ FocusID \in InBothNoBase
    /\ localMap[FocusID].CreatedAt = cloudMap[FocusID].CreatedAt
    /\ localMap[FocusID] # cloudMap[FocusID]
    /\ MergedIs(FocusID, localMap[FocusID])

(***************************************************************************)
(* Properties of both merges                                               *)
(***************************************************************************)
uLocalMap == NewsletterMap(mLocal)
uCloudMap == NewsletterMap(mCloud)

MergedOfSender(sender) == {i \in DOMAIN mMerged : mMerged[i].Sender = sender}
MergedIsItem(sender, item) ==
    /\ Cardinality(MergedOfSender(sender)) = 1
    /\ \A i \in MergedOfSender(sender) : mMerged[i] = item

Range(list) == {list[i] : i \in DOMAIN list}

\* C11: an entity that only one side holds is copied unchanged into the
\* merged list and no conflict is recorded for it, for accounts and for
\* unsubscribed entries; with an empty base and sides that share no
\* identifier the merged list consists of exactly the entities of local and
\* of remote and the conflict list is empty.
C11_OneSidedEntitiesCopied ==
    /\ mPhase = "merged" =>
          /\ \A id \in DOMAIN localMap \ DOMAIN cloudMap :
                MergedIs(id, localMap[id]) /\ ConflictsOf(id) = {}
          /\ \A id \in DOMAIN cloudMap \ DOMAIN localMap :
                MergedIs(id, cloudMap[id]) /\ ConflictsOf(id) = {}
          /\ (mBase = <<>> /\ DOMAIN localMap \cap DOMAIN cloudMap = {}) =>
                /\ Range(mMerged) = Range(mLocal) \cup Range(mCloud)
                /\ Len(mMerged) = Len(mLocal) + Len(mCloud)
                /\ mConflicts = <<>>
    /\ mPhase = "mergedUnsubscribed" =>
          /\ \A sender \in DOMAIN uLocalMap \ DOMAIN uCloudMap :
                MergedIsItem(sender, uLocalMap[sender]) /\ ConflictsOf(sender) = {}
          /\ \A sender \in DOMAIN uCloudMap \ DOMAIN uLocalMap :
                MergedIsItem(sender, uCloudMap[sender]) /\ ConflictsOf(sender) = {}
          /\ (mBase = <<>> /\ DOMAIN uLocalMap \cap DOMAIN uCloudMap = {}) =>
                /\ Range(mMerged) = Range(mLocal) \cup Range(mCloud)
                /\ Len(mMerged) = Len(mLocal) + Len(mCloud)
                /\ mConflicts = <<>>

\* a merge of unsubscribed lists with an empty base in which each side holds
\* a sender that the other lacks
C11_Witness ==
    /\ mPhase = "mergedUnsubscribed"
    /\ mBase = <<>>
    /\ Len(mLocal) = 1 /\ Len(mCloud) = 1
    /\ DOMAIN uLocalMap \cap DOMAIN uCloudMap = {}
    /\ Len(mMerged) = 2

Min(a, b) == IF a < b THEN a ELSE b
Abs(a) == IF a < 0 THEN -a ELSE a

C13_MergeIdempotent ==
    (mPhase \in {"merged", "mergedUnsubscribed"} /\ mLocal = mCloud /\ mCloud = mBase)
    => (mMerged = mLocal /\ mConflicts = <<>>)

\* C14: a merge called again with the same local, remote and base lists
\* returns the merged list and the conflict list it returned before.
C14_SameArgumentsSameResult ==
    [][(mPhase \in {"merged", "mergedUnsubscribed"})
           => (mMerged' = mMerged /\ mConflicts' = mConflicts)]_vars

(***************************************************************************)
(* Properties of the retry queue and of the pushes                         *)
(***************************************************************************)
\* the answers of the remote store by class
RetryableOutcomes == {ErrTimeout}
AuthOutcomes == {ErrForbidden}

\* the queued operations of last.before whose push was attempted and came
\* back with an answer of the class
AttemptedWith(class) ==
    {i \in DOMAIN last.attempts :
        last.attempts[i].attempted /\ last.attempts[i].err \in class}

SameOperation(p, q) == p.Type = q.Type /\ p.Data = q.Data

\* every operation of the queue stems from one of the operations `from` of
\* last.before
QueueStemsFrom(from) ==
    /\ Len(pending) <= Cardinality(from)
    /\ \A j \in DOMAIN pending : \E i \in from : SameOperation(pending[j], last.before[i])

PushOps == {"SyncAccountsToCloud", "SyncUnsubscribedToCloud"}
CollOf(op) == IF op = "SyncAccountsToCloud" THEN "accounts" ELSE "unsubscribed"
LocalJSON(coll) ==
    IF coll = "accounts" THEN JSONArray(accounts) ELSE JSONStore(unsubscribed)

\* C1: when the push of SyncAccountsToCloud / SyncUnsubscribedToCloud fails
\* with an error that is not of the authorization class, the operation
\* returns an error and the queue is the queue as it was with one operation
\* appended: of the collection's type, with the local snapshot that the push
\* sent, and retry count 0.
C1_FailedPushQueuesSnapshot ==
    (/\ last.op \in PushOps
     /\ Len(last.calls) = 1
     /\ last.calls[1].out \in RetryableOutcomes)
    => /\ last.err # NoErr
       /\ last.calls[1].body = LocalJSON(CollOf(last.op))
       /\ pending = Append(last.before,
                           PendingSync(CollOf(last.op), last.calls[1].body, 0, NoErr))

\* a failed push of the unsubscribed list that added to a queue holding an
\* operation already
C1_Witness ==
    /\ last.op = "SyncUnsubscribedToCloud"
    /\ Len(last.calls) = 1
    /\ last.calls[1].out = ErrTimeout
    /\ Len(last.before) = 1
    /\ Len(pending) = 2
    /\ pending[2].Type = "unsubscribed"

\* C2: an operation whose push in ProcessQueue fails with an error that is
\* not of the authorization class is in the queue afterwards, with its retry
\* count one higher and its last error set to that error.
C2_RetryableFailureKeepsOperation ==
    last.op = "ProcessQueue" =>
        \A i \in AttemptedWith(RetryableOutcomes) :
            \E j \in DOMAIN pending :
                pending[j] = [last.before[i] EXCEPT
                                 !.Retries = @ + 1,
                                 !.LastError = last.attempts[i].err]

\* C3: ProcessQueue removes an operation only when its push was attempted
\* and succeeded or failed with an error of the authorization class; an
\* operation whose push failed otherwise, or was not attempted, stays queued.
C3_RemovedOnlyAfterSuccessOrAuthFailure ==
    last.op = "ProcessQueue" =>
        \A i \in DOMAIN last.attempts :
            (\/ ~last.attempts[i].attempted
             \/ last.attempts[i].err \in RetryableOutcomes)
            => \E j \in DOMAIN pending : SameOperation(pending[j], last.before[i])

\* C5: an operation whose push in ProcessQueue fails with an error of the
\* authorization class is not in the queue afterwards (it is not kept with
\* an incremented retry count); a queue of that single operation is empty
\* afterwards.
C5_AuthFailureDropsOperation ==
    last.op = "ProcessQueue" =>
        /\ QueueStemsFrom(DOMAIN last.attempts \ AttemptedWith(AuthOutcomes))
        /\ (Len(last.before) = 1 /\ AttemptedWith(AuthOutcomes) # {})
              => GetPendingCount(pending) = 0

\* ProcessQueue on one queued operation whose push was refused
C5_Witness ==
    /\ last.op = "ProcessQueue"
    /\ Len(last.before) = 1
    /\ AttemptedWith(AuthOutcomes) = {1}
    /\ last.before[1].Retries = 0
    /\ GetPendingCount(pending) = 0

\* C6: an operation whose push in ProcessQueue succeeds is not in the queue
\* afterwards; a queue of one operation whose push succeeds is empty
\* afterwards.
C6_SuccessDropsOperation ==
    last.op = "ProcessQueue" =>
        /\ QueueStemsFrom(DOMAIN last.attempts \ AttemptedWith({NoErr}))
        /\ (Len(last.before) = 1 /\ AttemptedWith({NoErr}) # {})
              => GetPendingCount(pending) = 0

\* ProcessQueue on one queued operation whose push succeeded
C6_Witness ==
    /\ last.op = "ProcessQueue"
    /\ Len(last.before) = 1
    /\ AttemptedWith({NoErr}) = {1}
    /\ Len(last.calls) = 1
    /\ GetPendingCount(pending) = 0

BuiltOnPushOps == {"PeriodicSync", "AutoSync", "SyncAllAccounts"}

\* the pushes of the collection's current state that the last operation
\* made (the pushes of queued operations are last.attempts)
FreshPushes ==
    {k \in DOMAIN last.calls :
        /\ last.calls[k].method = "POST"
        /\ k > Cardinality({i \in DOMAIN last.attempts : last.attempts[i].attempted})}

QueuedOfType(queue, type) ==
    Cardinality({j \in DOMAIN queue : queue[j].Type = type})

\* C4: when a push of a collection's current state, made by
\* SyncAccountsToCloud, SyncUnsubscribedToCloud, PeriodicSync, AutoSync or
\* SyncAllAccounts, fails with an error of the authorization class, no
\* operation was added to the queue for that collection and the operation
\* returns an error.
C4_AuthFailureNeverQueued ==
    last.op \in PushOps \cup BuiltOnPushOps =>
        \A k \in FreshPushes :
            last.calls[k].out \in AuthOutcomes =>
                /\ QueuedOfType(pending, last.calls[k].coll)
                      <= QueuedOfType(last.before, last.calls[k].coll)
                /\ last.err # NoErr

(***************************************************************************)
(* Properties of the checksums                                             *)
(***************************************************************************)
\* the two lists hold the same entities, each as often as the other
SameEntities(listA, listB) ==
    /\ Len(listA) = Len(listB)
    /\ \A e \in Range(listA) \cup Range(listB) :
          Cardinality({i \in DOMAIN listA : listA[i] = e})
             = Cardinality({i \in DOMAIN listB : listB[i] = e})

\* C15: two lists of accounts, or of unsubscribed entries, that hold the
\* same entities in whatever order have the same checksum.
C15_ChecksumIgnoresOrder ==
    (mPhase = "checksummed" /\ SameEntities(mLocal, mCloud)) => sums[1] = sums[2]

\* the checksum of what the device holds of a collection, and of what the
\* remote store holds of it
LocalChecksum(coll) ==
    IF coll = "accounts" THEN CalculateChecksum(accounts)
    ELSE CalculateUnsubscribedChecksum(unsubscribed)
RemoteChecksum(coll) ==
    IF coll = "accounts" THEN CalculateChecksum(remote[coll].body.items)
    ELSE CalculateUnsubscribedChecksum(remote[coll].body.items)

\* C16: SyncAccountsToCloud / SyncUnsubscribedToCloud called while the
\* checksum of the local collection equals the checksum of the collection
\* that was pushed last with success (which is what the remote store holds:
\* no other device pushes here) makes no request to the remote store.
C16_UnchangedCollectionNotPushed ==
    [][(/\ last'.op \in PushOps
        /\ IsPremiumEnabled(cfg)
        /\ remote[CollOf(last'.op)].version > 0
        /\ LocalChecksum(CollOf(last'.op)) = RemoteChecksum(CollOf(last'.op)))
       => last'.calls = <<>>]_vars

(***************************************************************************)
(* Properties of the remembered versions                                   *)
(***************************************************************************)
\* C7: under every interleaving of the steps of StartupCheck, PeriodicSync
\* (with the processing of the retry queue), AutoSync and the manual pull on
\* the device and of the pushes of other devices, the version that
\* premium.json remembers for a collection is at most the version the remote
\* store holds for it.
C7_RememberedVersionAtMostRemote ==
    /\ cfg.LocalAccountsVersion <= remote["accounts"].version
    /\ cfg.LocalUnsubscribedVersion <= remote["unsubscribed"].version

\* both remembered versions have caught up with a remote store that other
\* devices and this one pushed to, while operations are in flight
C7_Witness ==
    /\ cfg.LocalAccountsVersion = MaxVersion
    /\ remote["accounts"].version = MaxVersion
    /\ cfg.LocalUnsubscribedVersion >= 1
    /\ Active # {}

(***************************************************************************)
(* Properties of StartupCheck (CheckAndSyncIfNeeded)                       *)
(***************************************************************************)
StartupRan == last.op = "CheckAndSyncIfNeeded" /\ IsPremiumEnabled(last.was.cfg)

\* the GET requests the last handler made for a collection: the first one is
\* the version check, the second one the pull
GetsOf(coll) == SelectSeq(last.calls, LAMBDA c : c.method = "GET" /\ c.coll = coll)
LocalList(coll) == IF coll = "accounts" THEN accounts ELSE unsubscribed
WasLocalList(coll) ==
    IF coll = "accounts" THEN last.was.accounts ELSE last.was.unsubscribed
WasRemembered(coll) == LocalVersion(GetPremiumConfig(last.was.cfg), coll)

\* the version check of the collection was answered
VersionRead(coll) == Len(GetsOf(coll)) >= 1 /\ GetsOf(coll)[1].out = NoErr

\* the pull of the collection was answered with a document that unmarshals
PullSucceeded(coll) ==
    /\ Len(GetsOf(coll)) = 2
    /\ GetsOf(coll)[2].out = NoErr
    /\ IF coll = "accounts" THEN UnmarshalAccountsOK(last.was.remote[coll].body)
       ELSE UnmarshalStoreOK(last.was.remote[coll].body)

\* C17: StartupCheck (CheckAndSyncIfNeeded) makes no update request to the
\* remote store, leaves what the remote store holds as it was, and adds
\* nothing to the retry queue.
C17_StartupCheckNeverPushes ==
    last.op = "CheckAndSyncIfNeeded" =>
        /\ \A k \in DOMAIN last.calls : last.calls[k].method = "GET"
        /\ pending = last.before
        /\ remote = last.was.remote

\* StartupCheck has pulled both collections and saved what it added to them
C17_Witness ==
    /\ StartupRan
    /\ Len(last.calls) = 4
    /\ Len(accounts) > Len(last.was.accounts)
    /\ Len(unsubscribed) > Len(last.was.unsubscribed)

\* C18: when the version that StartupCheck reads of the remote store for a
\* collection is not greater than the version remembered for it, StartupCheck
\* does not pull the collection and leaves its local data and its remembered
\* version as they were.
C18_NotNewerNotPulled ==
    \A coll \in Colls :
       (/\ StartupRan
        /\ VersionRead(coll)
        /\ last.was.remote[coll].version <= WasRemembered(coll))
       => /\ Len(GetsOf(coll)) = 1
          /\ LocalList(coll) = WasLocalList(coll)
          /\ LocalVersion(GetPremiumConfig(cfg), coll) = WasRemembered(coll)

\* the accounts were pushed by this device and are up to date, while the
\* unsubscribed list was pulled, merged and saved with the configuration
C18_Witness ==
    /\ StartupRan
    /\ VersionRead("accounts")
    /\ last.was.remote["accounts"].version = WasRemembered("accounts")
    /\ WasRemembered("accounts") > 0
    /\ PullSucceeded("unsubscribed")
    /\ unsubscribed # last.was.unsubscribed

\* C19: when StartupCheck reads a remote version greater than the remembered
\* one and the pull succeeds, premium.json remembers that remote version when
\* StartupCheck has returned, also when the merge added nothing.
C19_PulledVersionRemembered ==
    \A coll \in Colls :
       (/\ StartupRan
        /\ VersionRead(coll)
        /\ last.was.remote[coll].version > WasRemembered(coll)
        /\ PullSucceeded(coll))
       => LocalVersion(GetPremiumConfig(cfg), coll) = last.was.remote[coll].version

\* C20: the collection that StartupCheck saves after a pull holds the same
\* entities as the three-way merge of the local collection, the pulled one
\* and an empty base.
C20_SavedIsThreeWayMerge ==
    /\ (StartupRan /\ PullSucceeded("accounts") /\ accounts # last.was.accounts)
       => \A ord \in Orders(AllIDs(last.was.accounts,
                                   last.was.remote["accounts"].body.items)) :
             Range(accounts) =
                Range(ThreeWayMergeAccounts(last.was.accounts,
                         last.was.remote["accounts"].body.items, <<>>, ord).result)
    /\ (StartupRan /\ PullSucceeded("unsubscribed")
        /\ unsubscribed # last.was.unsubscribed)
       => \A ord \in Orders(AllSenders(last.was.unsubscribed,
                                       last.was.remote["unsubscribed"].body.items)) :
             Range(unsubscribed) =
                Range(ThreeWayMergeUnsubscribed(last.was.unsubscribed,
                         last.was.remote["unsubscribed"].body.items, <<>>, ord).result)

(***************************************************************************)
(* Properties of PeriodicSync                                              *)
(***************************************************************************)
PeriodicRan == last.op = "PeriodicSync" /\ IsPremiumEnabled(cfg)

\* the queued operations that ProcessQueue sends: those whose Data unmarshals
Retried(item) ==
    \/ item.Type = "accounts" /\ UnmarshalAccountsOK(item.Data)
    \/ item.Type = "unsubscribed" /\ UnmarshalStoreOK(item.Data)
RetriedOps == SelectSeq(last.before, Retried)

\* the requests of the run, in the order in which they were made: those of
\* the queue drain and those of the fresh pushes
DrainCalls == SubSeq(last.calls, 1, Len(RetriedOps))
FreshCalls == SubSeq(last.calls, Len(RetriedOps) + 1, Len(last.calls))
FreshCallsOf(coll) == SelectSeq(FreshCalls, LAMBDA c : c.coll = coll)
EnabledColls ==
    {coll \in Colls : IF coll = "accounts" THEN SyncsAccounts(GetPremiumConfig(cfg))
                      ELSE SyncsUnsubscribed(GetPremiumConfig(cfg))}

\* C21: in a PeriodicSync run that starts with a non-empty retry queue, the
\* requests of the run are first one request per queued operation, in queue
\* order and with the queued snapshot, and only then the fresh pushes with
\* the local collections: no queued snapshot is sent after a fresh one.
C21_DrainBeforeFreshPush ==
    (PeriodicRan /\ last.before # <<>>)
    => /\ Len(last.attempts) = Len(last.before)
       /\ Len(last.calls) >= Len(RetriedOps)
       /\ \A k \in DOMAIN DrainCalls :
             /\ DrainCalls[k].coll = RetriedOps[k].Type
             /\ DrainCalls[k].body = JSONArray(RetriedOps[k].Data.items)
       /\ \A k \in DOMAIN FreshCalls :
             FreshCalls[k].body = LocalJSON(FreshCalls[k].coll)

\* a run that sent a queued snapshot of the accounts and then a fresh,
\* different snapshot of the accounts
C21_Witness ==
    /\ PeriodicRan
    /\ Len(DrainCalls) = 1
    /\ DrainCalls[1].coll = "accounts"
    /\ Len(FreshCallsOf("accounts")) = 1
    /\ FreshCallsOf("accounts")[1].body # DrainCalls[1].body

\* C22: in a PeriodicSync run the push of each enabled collection is
\* attempted exactly once, whatever the queue drain and the push before it
\* came back with.
C22_EachCollectionPushedOnce ==
    PeriodicRan =>
       /\ \A coll \in EnabledColls : Len(FreshCallsOf(coll)) = 1
       /\ \A coll \in Colls \ EnabledColls : Len(FreshCallsOf(coll)) = 0

\* a run in which the retry of a queued operation failed, the push of the
\* accounts failed and the push of the unsubscribed list was still made
C22_Witness ==
    /\ PeriodicRan
    /\ Len(last.attempts) = 1
    /\ last.attempts[1].err # NoErr
    /\ Len(FreshCallsOf("accounts")) = 1
    /\ FreshCallsOf("accounts")[1].out # NoErr
    /\ Len(FreshCallsOf("unsubscribed")) = 1

(***************************************************************************)
(* Properties of what ProcessQueue returns                                 *)
(***************************************************************************)
\* the queued operations whose push was attempted and failed
FailedAttempts ==
    {i \in DOMAIN last.attempts :
        last.attempts[i].attempted /\ last.attempts[i].err # NoErr}
Max(S) == CHOOSE m \in S : \A n \in S : n <= m
LastFailure ==
    IF FailedAttempts = {} THEN NoErr ELSE last.attempts[Max(FailedAttempts)].err

\* C24: ProcessQueue goes through every queued operation, whatever the
\* pushes before it came back with, and returns nil when no attempted push
\* failed and otherwise the error of the last operation, in queue order,
\* whose push failed.
C24_ReturnsLastFailure ==
    (last.op = "ProcessQueue" /\ IsPremiumEnabled(cfg))
    => /\ Len(last.attempts) = Len(last.before)
       /\ last.err = LastFailure

(***************************************************************************)
(* Properties of the sync metadata after a retry                           *)
(***************************************************************************)
\* the requests of the last handler that pushed the unsubscribed list with
\* success
UnsubscribedSuccesses ==
    {k \in DOMAIN last.calls :
        /\ last.calls[k].method = "POST"
        /\ last.calls[k].coll = "unsubscribed"
        /\ last.calls[k].out = NoErr}

\* the time at which the k-th request of the last handler was answered
TimeOfCall(k) ==
    Now(World) - Cardinality({j \in DOMAIN last.calls :
                                 /\ j > k
                                 /\ last.calls[j].method = "POST"
                                 /\ last.calls[j].out = NoErr})

\* C27: when ProcessQueue has pushed a queued unsubscribed operation with
\* success, LastUnsubSync of premium.json is the time of that success (of
\* the last one, when several were pushed).
C27_RetrySuccessSetsLastUnsubSync ==
    (last.op = "ProcessQueue" /\ UnsubscribedSuccesses # {})
    => cfg.LastUnsubSync = TimeOfCall(Max(UnsubscribedSuccesses))

(***************************************************************************)
(* Properties of the queue file and of premium.json                        *)
(***************************************************************************)
\* C23: when QueueSync has returned without an error, the queue is the
\* queue as it was with one operation appended (the given type and snapshot,
\* retry count 0, no last error), the queue file gives that same list when
\* it is loaded, and QueueSync has made no request to the remote store.
C23_QueueSyncAppendsAndPersists ==
    (last.op = "QueueSync" /\ proc = "running" /\ last.err = NoErr)
    => /\ pending = Append(last.before, last.queued)
       /\ last.queued.Retries = 0
       /\ last.queued.LastError = NoErr
       /\ load(files["sync_queue.json"]) = pending
       /\ last.calls = <<>>

\* QueueSync has appended to a queue that held an operation with a last
\* error, and has written both to the file
C23_Witness ==
    /\ last.op = "QueueSync"
    /\ proc = "running"
    /\ last.err = NoErr
    /\ Len(pending) = 2
    /\ pending[1].Type # pending[2].Type
    /\ files["sync_queue.json"].kind = "json"

\* C25: when the write of the queue file at the end of ProcessQueue fails,
\* ProcessQueue returns an error.
C25_SaveFailureReported ==
    (last.op = "ProcessQueue" /\ proc = "running" /\ last.saveErr # NoErr)
    => last.err # NoErr

\* C26: the queue file and premium.json hold, at every moment, a complete
\* text (or do not exist yet): never an empty or partly written one, also
\* after a write that failed or during which the process died.
C26_FilesNeverCutShort ==
    \A f \in Files : files[f].kind \in {"absent", "json"}

(***************************************************************************)
(* Liveness of the pushes                                                  *)
(***************************************************************************)
\* every request of the handler that ran last was answered with success
PushesSucceed == \A k \in DOMAIN last.calls : last.calls[k].out = NoErr

\* the retry queue is empty and the remote store holds, of each collection
\* that is synced, what the device holds
InSync ==
    /\ GetPendingCount(pending) = 0
    /\ IsPremiumEnabled(cfg) =>
          \A coll \in EnabledColls : remote[coll].body = LocalJSON(coll)

C29_TickLeadsToNextTick ==
    (Running("periodicSync") # {}) ~> (Running("tick") # {})

(***************************************************************************)
(* Properties of the queue lock                                            *)
(***************************************************************************)

\* C30: while ProcessQueue is inside its retry loop (sleeping for the
\* backoff or waiting for the answer to a request), an operation that calls
\* QueueSync finds the queue lock free.
C30_QueueSyncNotBlockedByRetry ==
    (pc["periodic"] = <<"retry">> /\ AtQueueSync # {}) => ~QueueLocked

(***************************************************************************)
(* Properties of the backoff                                               *)
(***************************************************************************)
\* min(2^r, 5): 2^r exceeds 5 from r = 3 on
BackoffSeconds(r) == IF r >= 3 THEN 5 ELSE 2^r

InOrderOf(sub, full) ==
    \E f \in [DOMAIN sub -> DOMAIN full] :
        /\ \A k \in DOMAIN sub : SameOperation(sub[k], full[f[k]])
        /\ \A k, l \in DOMAIN sub : k < l => f[k] < f[l]

\* C32: ProcessQueue sends the queued operations in the order in which they
\* were queued, and the operations that are queued afterwards are in the
\* order they had before.
C32_QueueOrderKept ==
    (last.op = "ProcessQueue" /\ IsPremiumEnabled(cfg))
    => /\ Len(last.calls) = Len(RetriedOps)
       /\ \A k \in DOMAIN last.calls :
             /\ last.calls[k].coll = RetriedOps[k].Type
             /\ last.calls[k].body = JSONArray(RetriedOps[k].Data.items)
       /\ InOrderOf(pending, last.before)

\* a run over a queue of two operations of different collections
C32_Witness ==
    /\ last.op = "ProcessQueue"
    /\ IsPremiumEnabled(cfg)
    /\ Len(last.calls) = 2
    /\ last.calls[1].coll # last.calls[2].coll

(***************************************************************************)
(* Properties of QueueSync during ProcessQueue                             *)
(***************************************************************************)
\* the operation that QueueSync of the operation t appends
Enqueued(t) == PendingSync(pc[t][2], loc[t].doc, 0, NoErr)

\* the queued operations that the running ProcessQueue has not gone through
NotGoneThrough == {k \in DOMAIN pending : k >= loc["periodic"].i}

Keys(coll, doc) ==
    {IF coll = "accounts" THEN doc.items[i].ID ELSE doc.items[i].Sender :
        i \in DOMAIN doc.items}

\* C34: when the remote store holds a collection under a version above the
\* one this device remembers, the entities of that collection are still on
\* the remote store after a PeriodicSync or AutoSync of this device.
C34_PushKeepsNewerRemote ==
    [][\A coll \in Colls :
          (/\ last'.op \in {"PeriodicSync", "AutoSync"}
           /\ remote[coll].version > LocalVersion(GetPremiumConfig(cfg), coll))
          => (Keys(coll, remote[coll].body) \subseteq Keys(coll, remote'[coll].body))]_vars

(***************************************************************************)
(* Properties of the remembered version after a pull                       *)
(***************************************************************************)
LocalKeys(coll) == Keys(coll, [items |-> LocalList(coll)])

\* C35: when the persisted remembered version of a collection is the
\* version under which the remote store holds it, the local collection has
\* every entity of the remote one: the version is never persisted before
\* the pulled data is merged and saved.
C35_VersionOnlyAfterMerge ==
    \A coll \in Colls :
       (/\ remote[coll].version > 0
        /\ LocalVersion(GetPremiumConfig(cfg), coll) = remote[coll].version)
       => (Keys(coll, remote[coll].body) \subseteq LocalKeys(coll))

(***************************************************************************)
(* Properties of premium.json under operations in flight together          *)
(***************************************************************************)
\* C36: with the operations of the device in flight together, no step
\* lowers the remembered version of a collection that premium.json holds.
C36_RememberedVersionNeverDecreases ==
    [][\A coll \in Colls :
          LocalVersion(GetPremiumConfig(cfg'), coll)
             >= LocalVersion(GetPremiumConfig(cfg), coll)]_vars

(***************************************************************************)
(* Properties of the identifiers of a merged collection                    *)
(***************************************************************************)
\* the identifier of an entity of the lists handed to the merge
KeyOf(entity) == IF mPhase = "merged" THEN entity.ID ELSE entity.Sender
KeysOf(list) == {KeyOf(list[i]) : i \in DOMAIN list}
MergeReturned == mPhase \in {"merged", "mergedUnsubscribed"}

\* C37: the merged collection holds every identifier of the local and of the
\* cloud list exactly once, and no other identifier, also when a list holds
\* an identifier twice: an entity of the base alone is not in it, an entity
\* that one side lacks and the other one has is in it.
C37_MergedIdentifiersOnce ==
    MergeReturned =>
       /\ KeysOf(mMerged) = KeysOf(mLocal) \cup KeysOf(mCloud)
       /\ \A i, j \in DOMAIN mMerged : KeyOf(mMerged[i]) = KeyOf(mMerged[j]) => i = j

\* a merge of a local list that holds an identifier twice, with a base that
\* has an identifier of its own and one that only the local list still has
C37_Witness ==
    /\ MergeReturned
    /\ Len(mLocal) = 2
    /\ KeyOf(mLocal[1]) = KeyOf(mLocal[2])
    /\ KeysOf(mBase) \ (KeysOf(mLocal) \cup KeysOf(mCloud)) # {}
    /\ (KeysOf(mBase) \cap KeysOf(mLocal)) \ KeysOf(mCloud) # {}

(***************************************************************************)
(* Properties of the request body of a retry                               *)
(***************************************************************************)
\* C38: the body that the retry of a queued operation sends is the body
\* that the push which queued it sent, that is the queued snapshot, for
\* accounts and for unsubscribed entries.
C38_RetrySendsBodyOfFreshPush ==
    (last.op = "ProcessQueue" /\ IsPremiumEnabled(cfg))
    => /\ Len(last.calls) = Len(RetriedOps)
       /\ \A k \in DOMAIN last.calls : last.calls[k].body = RetriedOps[k].Data

(***************************************************************************)
(* Properties of the sync settings                                         *)
(***************************************************************************)
CallsOf(coll) == SelectSeq(last.calls, LAMBDA c : c.coll = coll)

\* C39: a PeriodicSync run under a configuration that has the sync of a
\* collection switched off (and is not one from before the sync settings)
\* makes no request that pushes this collection, neither for the local
\* collection nor for an operation of the retry queue.
C39_SwitchedOffCollectionNotPushed ==
    PeriodicRan => \A coll \in Colls \ EnabledColls : CallsOf(coll) = <<>>

(***************************************************************************)
(* Properties of the operations while premium is not enabled               *)
(***************************************************************************)
GuardedOps == {"PeriodicSync", "AutoSync", "CheckAndSyncIfNeeded", "ProcessQueue"}
NotEnabled == ~cfg.Enabled \/ cfg.Token = ""

\* C40: while premium is disabled or no token is stored, PeriodicSync,
\* AutoSync, CheckAndSyncIfNeeded and ProcessQueue make no request, leave
\* the local collections, premium.json with its remembered versions, the
\* retry queue and the remote store as they are, and return no error.
C40_NotEnabledDoesNothing ==
    [][(NotEnabled /\ last'.op \in GuardedOps)
          => /\ last'.calls = <<>>
             /\ last'.err = NoErr
             /\ UNCHANGED <<cfg, accounts, unsubscribed, pending, remote>>]_vars

\* PeriodicSync has run with no token stored, with operations in the retry
\* queue and with a remote store that holds newer accounts
C40_Witness ==
    /\ last.op = "PeriodicSync"
    /\ cfg.Enabled
    /\ cfg.Token = ""
    /\ pending # <<>>
    /\ remote["accounts"].version > LocalVersion(GetPremiumConfig(cfg), "accounts")

====
